---- MODULE Spec2Model ----
(***************************************************************************)
(* Model of the radon-extension-build orchestrator: branch policies,       *)
(* package manifest / lockfile rewriting, module cloning, the validator's  *)
(* link registry and its checked-set.                                      *)
(*                                                                         *)
(* Strings are modelled as sequences of tokens.  A token stands for one    *)
(* character ("/", ".", "-", "0".."9") or for an opaque run of letters     *)
(* ("master", "lib", "node_modules").  Concatenation, prefix tests and     *)
(* substring search are computed on the token sequences exactly as the     *)
(* JavaScript string methods compute them on characters.                   *)
(***************************************************************************)
EXTENDS Integers, Sequences, FiniteSets, TLC

VARIABLES
    ref, refParts, refPc, refResult,
    pkgFile, pkgPrev, pkgArg, pkgRet, pkgWrote,
    lockExists, lockFile, lockPrev, lockArg, lockRet, lockWrote,
    cloneFs, cloneRemote, cloneNet, cloneCall,
    links, linkOp,
    browserModules, vPhase, vPending, checked, vDependencies, vError, vCalls, vOp,
    pollOpts, statusPoll, buildPoll,
    prIn, prStage, prOutcome, prTag, prRemotes, prModules, prBranch, prTasks, prLog,
    modIn, modOut,
    grIn, grOut, instIn, inst, fanIn, fanPending, fanPhase,
    rsIn, rsStack, rsOut

refVars == <<ref, refParts, refPc, refResult>>

pkgVars == <<pkgFile, pkgPrev, pkgArg, pkgRet, pkgWrote>>

lockVars == <<lockExists, lockFile, lockPrev, lockArg, lockRet, lockWrote>>

cloneVars == <<cloneFs, cloneRemote, cloneNet, cloneCall>>

linkVars == <<links, linkOp>>

validatorVars ==
    <<browserModules, vPhase, vPending, checked, vDependencies, vError, vCalls, vOp>>

pollVars == <<pollOpts, statusPoll, buildPoll>>

pushVars ==
    <<prIn, prStage, prOutcome, prTag, prRemotes, prModules, prBranch, prTasks, prLog>>

modVars == <<modIn, modOut>>

graphVars == <<grIn, grOut>>

installVars == <<instIn, inst>>

fanVars == <<fanIn, fanPending, fanPhase>>

reasonVars == <<rsIn, rsStack, rsOut>>

orchVars == <<graphVars, installVars, fanVars, reasonVars>>

releaseVars == <<pollVars, pushVars, modVars, orchVars>>

baseVars == <<refVars, pkgVars, lockVars, cloneVars, linkVars, validatorVars>>

vars == <<baseVars, releaseVars>>

----------------------------------------------------------------------------
(* Bounds *)

\* largest version number component drawn for a ref
MaxVer == 10

\* largest number of attempts a polling loop is given
MaxBudget == 2

\* the calls the stack holds before the engine raises RangeError
MaxStack == 4

----------------------------------------------------------------------------
(* String helpers (String.prototype.* on token sequences) *)

Digits == {"0", "1", "2", "3", "4", "5", "6", "7", "8", "9"}

Punct == {".", "-", "+", "/", "@", " "}

IsDigit(t) == t \in Digits

IsAlpha(t) == t \notin Digits /\ t \notin Punct

DigitVal(t) ==
    CASE t = "0" -> 0 [] t = "1" -> 1 [] t = "2" -> 2 [] t = "3" -> 3
      [] t = "4" -> 4 [] t = "5" -> 5 [] t = "6" -> 6 [] t = "7" -> 7
      [] t = "8" -> 8 [] t = "9" -> 9

DigitTok(n) ==
    CASE n = 0 -> "0" [] n = 1 -> "1" [] n = 2 -> "2" [] n = 3 -> "3"
      [] n = 4 -> "4" [] n = 5 -> "5" [] n = 6 -> "6" [] n = 7 -> "7"
      [] n = 8 -> "8" [] n = 9 -> "9"

\* s.substring(from) with a 0-based index
SubstringFrom(s, from) ==
    IF from >= Len(s) THEN <<>> ELSE SubSeq(s, from + 1, Len(s))

\* s.substring(0, to) with a 0-based exclusive end; a negative end counts as 0
SubstringTo(s, to) ==
    IF to <= 0 THEN <<>> ELSE SubSeq(s, 1, IF to > Len(s) THEN Len(s) ELSE to)

MatchesAt(s, t, i) ==
    /\ i >= 0
    /\ i + Len(t) <= Len(s)
    /\ \A k \in 1..Len(t) : s[i + k] = t[k]

\* s.indexOf(t): 0-based index of the first occurrence, -1 when there is none
IndexOf(s, t) ==
    IF \E i \in 0..Len(s) : MatchesAt(s, t, i)
    THEN CHOOSE i \in 0..Len(s) :
            /\ MatchesAt(s, t, i)
            /\ \A j \in 0..(i - 1) : ~MatchesAt(s, t, j)
    ELSE -1

\* s.lastIndexOf(t)
LastIndexOf(s, t) ==
    IF \E i \in 0..Len(s) : MatchesAt(s, t, i)
    THEN CHOOSE i \in 0..Len(s) :
            /\ MatchesAt(s, t, i)
            /\ \A j \in (i + 1)..Len(s) : ~MatchesAt(s, t, j)
    ELSE -1

\* s.startsWith(t), also written s.indexOf(t) === 0 in the source
StartsWith(s, t) == MatchesAt(s, t, 0)

\* s.split(sep) for a one-token separator
RECURSIVE Split(_, _)
Split(s, sep) ==
    LET i == IndexOf(s, <<sep>>)
    IN  IF i < 0 THEN <<s>>
        ELSE <<SubstringTo(s, i)>> \o Split(SubstringFrom(s, i + 1), sep)

\* parseInt of a run of digits
RECURSIVE NumVal(_)
NumVal(s) ==
    IF Len(s) = 0 THEN 0
    ELSE 10 * NumVal(SubSeq(s, 1, Len(s) - 1)) + DigitVal(s[Len(s)])

\* String(n) for a non-negative integer
RECURSIVE NumStr(_)
NumStr(n) ==
    IF n < 10 THEN <<DigitTok(n)>>
    ELSE NumStr(n \div 10) \o <<DigitTok(n % 10)>>

----------------------------------------------------------------------------
(* semver (strict mode), as used through semver.valid / major / minor /    *)
(* patch / prerelease                                                      *)

\* NUMERICIDENTIFIER: 0|[1-9]\d*
IsNumericId(s) ==
    /\ Len(s) > 0
    /\ \A k \in 1..Len(s) : IsDigit(s[k])
    /\ (Len(s) > 1 => s[1] # "0")

\* NONNUMERICIDENTIFIER: \d*[a-zA-Z-][a-zA-Z0-9-]*
IsNonNumericId(s) ==
    /\ Len(s) > 0
    /\ \A k \in 1..Len(s) : IsDigit(s[k]) \/ IsAlpha(s[k]) \/ s[k] = "-"
    /\ \E k \in 1..Len(s) : IsAlpha(s[k]) \/ s[k] = "-"

\* BUILDIDENTIFIER: [0-9A-Za-z-]+
IsBuildId(s) ==
    /\ Len(s) > 0
    /\ \A k \in 1..Len(s) : IsDigit(s[k]) \/ IsAlpha(s[k]) \/ s[k] = "-"

\* The three parts of "v?MAIN(-PRERELEASE)?(+BUILD)?": the build part starts
\* at the first "+", the pre-release part at the first "-" before it.
SemverCut(s) ==
    LET plus  == IndexOf(s, <<"+">>)
        core  == IF plus < 0 THEN s ELSE SubstringTo(s, plus)
        dash  == IndexOf(core, <<"-">>)
        main  == IF dash < 0 THEN core ELSE SubstringTo(core, dash)
    IN  [main     |-> IF Len(main) > 0 /\ main[1] = "v"
                      THEN SubstringFrom(main, 1) ELSE main,
         hasPre   |-> dash >= 0,
         pre      |-> IF dash < 0 THEN <<>> ELSE SubstringFrom(core, dash + 1),
         hasBuild |-> plus >= 0,
         build    |-> IF plus < 0 THEN <<>> ELSE SubstringFrom(s, plus + 1)]

\* semver.valid(s) !== null
SemverValid(s) ==
    LET c    == SemverCut(s)
        nums == Split(c.main, ".")
        pres == Split(c.pre, ".")
        blds == Split(c.build, ".")
    IN  /\ Len(nums) = 3
        /\ \A k \in 1..3 : IsNumericId(nums[k])
        /\ c.hasPre =>
              \A k \in 1..Len(pres) : IsNumericId(pres[k]) \/ IsNonNumericId(pres[k])
        /\ c.hasBuild => \A k \in 1..Len(blds) : IsBuildId(blds[k])

SemverMajor(s) == NumVal(Split(SemverCut(s).main, ".")[1])

SemverMinor(s) == NumVal(Split(SemverCut(s).main, ".")[2])

SemverPatch(s) == NumVal(Split(SemverCut(s).main, ".")[3])

\* semver.prerelease(s) is null exactly when there is no pre-release component
SemverPrereleaseIsNil(s) == ~SemverCut(s).hasPre

----------------------------------------------------------------------------
(* Branch policies *)

\* "v<major>.<minor>"
SeriesBranch(s) ==
    <<"v">> \o NumStr(SemverMajor(s)) \o <<".">> \o NumStr(SemverMinor(s))

\* getBranches with the release case falling through to the feature case
getBranches_NoSeries(r) ==
    IF r \in {<<"master">>, <<"develop">>} THEN <<r>>
    ELSE <<r, <<"develop">>>>

getBranches(r) ==
    IF r \in {<<"master">>, <<"develop">>} THEN <<r>>
    ELSE IF SemverValid(r) THEN <<r, SeriesBranch(r)>>
    ELSE <<r, <<"develop">>>>

\* getTargetBranches testing the minor instead of the patch number
getTargetBranches_MinorZero(tag) ==
    (IF SemverMinor(tag) = 0 THEN <<(<<"develop">>)>> ELSE <<>>)
        \o <<SeriesBranch(tag)>>
        \o (IF SemverPrereleaseIsNil(tag) THEN <<(<<"master">>)>> ELSE <<>>)

getTargetBranches(tag) ==
    (IF SemverPatch(tag) = 0 THEN <<(<<"develop">>)>> ELSE <<>>)
        \o <<SeriesBranch(tag)>>
        \o (IF SemverPrereleaseIsNil(tag) THEN <<(<<"master">>)>> ELSE <<>>)

----------------------------------------------------------------------------
(* Inputs of the branch policies: a ref is either a branch name or is      *)
(* assembled from a prefix, three dotted number pieces and a suffix, each  *)
(* either well formed or not.                                              *)

GoodNumbers == {NumStr(n) : n \in 0..MaxVer}

BadNumbers == {<<>>, <<"0", "1">>, <<"x">>}

GoodPrefixes == {<<>>, <<"v">>}

BadPrefixes == {<<"x">>}

\* suffixes without a pre-release component
GoodPlainSuffixes == {<<>>, <<"+", "b">>}

\* suffixes with a pre-release component
GoodPreSuffixes ==
    {<<"-", "beta">>, <<"-", "beta", ".", "1">>, <<"-", "0">>,
     <<"-", "beta", "+", "b">>, <<"-", "-">>}

BadSuffixes ==
    {<<"-">>, <<"+">>, <<"-", "0", "1">>, <<"-", "beta", ".">>, <<"x">>,
     <<".", "4">>}

NamedRefs ==
    {<<"master">>, <<"develop">>, <<"feature">>, <<"feature", "/", "x">>,
     <<>>, <<"v">>, <<"master", "-", "1">>, <<"1", ".", "2">>}

RefParts ==
    [named  : {FALSE},
     name   : {<<>>},
     prefix : GoodPrefixes \cup BadPrefixes,
     major  : GoodNumbers \cup BadNumbers,
     minor  : {NumStr(0), NumStr(2), <<"0", "2">>},
     patch  : {NumStr(0), NumStr(3), <<>>},
     suffix : GoodPlainSuffixes \cup GoodPreSuffixes \cup BadSuffixes]
    \cup
    [named  : {TRUE},
     name   : NamedRefs,
     prefix : {<<>>}, major : {<<>>}, minor : {<<>>}, patch : {<<>>},
     suffix : {<<>>}]

RefOf(p) ==
    IF p.named THEN p.name
    ELSE p.prefix \o p.major \o <<".">> \o p.minor \o <<".">> \o p.patch
            \o p.suffix

RefIdle ==
    /\ refParts = [named |-> TRUE, name |-> <<>>, prefix |-> <<>>,
                   major |-> <<>>, minor |-> <<>>, patch |-> <<>>,
                   suffix |-> <<>>]
    /\ ref = <<>>
    /\ refPc = "input"
    /\ refResult = <<>>

RefInit ==
    /\ refParts \in RefParts
    /\ ref = RefOf(refParts)
    /\ refPc = "input"
    /\ refResult = <<>>

\* getBranches(ref)
GetBranches ==
    /\ refPc = "input"
    /\ refResult' = getBranches(ref)
    /\ refPc' = "getBranches"
    /\ UNCHANGED <<ref, refParts>>
    /\ UNCHANGED <<pkgVars, lockVars, cloneVars, linkVars, validatorVars, releaseVars>>

\* getTargetBranches(ref); semver.major throws on an invalid version
GetTargetBranches ==
    /\ refPc = "input"
    /\ IF SemverValid(ref)
       THEN /\ refResult' = getTargetBranches(ref)
            /\ refPc' = "getTargetBranches"
       ELSE /\ refResult' = <<>>
            /\ refPc' = "threw"
    /\ UNCHANGED <<ref, refParts>>
    /\ UNCHANGED <<pkgVars, lockVars, cloneVars, linkVars, validatorVars, releaseVars>>

RefNext == GetBranches \/ GetTargetBranches

----------------------------------------------------------------------------
(* Claims about the branch policies *)

\* the pieces of the ref are all well formed: it is a valid semantic version
PartsValid(p) ==
    /\ ~p.named
    /\ p.prefix \in GoodPrefixes
    /\ p.major \in GoodNumbers
    /\ p.minor \in GoodNumbers
    /\ p.patch \in GoodNumbers
    /\ p.suffix \in GoodPlainSuffixes \cup GoodPreSuffixes

PartsSeries(p) == <<"v">> \o p.major \o <<".">> \o p.minor

\* C1: getBranches(ref) is [ref] for master and develop, [ref, v<major>.<minor>]
\* for a valid semantic version and [ref, develop] for every other ref; the
\* requested ref is always the first candidate.
C1_GetBranches ==
    refPc = "getBranches" =>
        /\ refResult[1] = ref
        /\ IF ref = <<"master">> \/ ref = <<"develop">>
           THEN refResult = <<ref>>
           ELSE IF PartsValid(refParts)
                THEN refResult = <<ref, PartsSeries(refParts)>>
                ELSE refResult = <<ref, <<"develop">>>>

C1_Witness ==
    /\ refPc = "getBranches"
    /\ PartsValid(refParts)
    /\ refParts.prefix = <<"v">>
    /\ refParts.major = <<"1", "0">>
    /\ refResult = <<ref, <<"v", "1", "0", ".", "2">>>>

\* C2: for a valid release tag the target branches are develop iff the patch
\* number is zero, always the series branch, master iff there is no
\* pre-release component, in the order develop, series, master.
C2_TargetBranches ==
    (refPc = "getTargetBranches" /\ PartsValid(refParts)) =>
        refResult =
            (IF refParts.patch = <<"0">> THEN <<(<<"develop">>)>> ELSE <<>>)
            \o <<PartsSeries(refParts)>>
            \o (IF refParts.suffix \in GoodPlainSuffixes
                THEN <<(<<"master">>)>> ELSE <<>>)

C2_Witness ==
    /\ refPc = "getTargetBranches"
    /\ PartsValid(refParts)
    /\ refParts.patch = <<"0">>
    /\ refParts.suffix = <<"-", "beta", ".", "1">>
    /\ refResult = <<(<<"develop">>), PartsSeries(refParts)>>

----------------------------------------------------------------------------
(* JSON objects are functions from the keys that are present to values;    *)
(* a missing key is the source's undefined / null.  An optional scalar is  *)
(* a set holding the value, or the empty set for null.                     *)

Has(o, k) == k \in DOMAIN o

Put(o, k, v) == [x \in (DOMAIN o) \cup {k} |-> IF x = k THEN v ELSE o[x]]

Del(o, k) == [x \in (DOMAIN o) \ {k} |-> o[x]]

Null == {}

IsNil(opt) == opt = {}

ValueOf(opt) == CHOOSE x \in opt : TRUE

\* '@radon-extension/'
InternalScope == <<"@", "radon", "-", "extension", "/">>

\* 'radon-extension-'
RepositoryPrefix == <<"radon", "-", "extension", "-">>

FrameworkName == InternalScope \o <<"framework">>

CoreName == InternalScope \o <<"core">>

\* the name the package tests use
NeonFrameworkName == <<"neon", "-", "extension", "-", "framework">>

PackageNames == {FrameworkName, CoreName, NeonFrameworkName}

V190 == <<"1", ".", "9", ".", "0">>

V200 == <<"2", ".", "0", ".", "0">>

FromUrl == <<"file", ":", "framework", ".", "tgz">>

----------------------------------------------------------------------------
(* lib/core/package.js: manifest and lockfile updates *)

\* parsePackageDependency(dep): {from: null, version: null, ...dep}, a value
\* that is not a plain object being the version itself
parsePackageDependency(dep) ==
    IF dep.plain
    THEN [from    |-> IF Has(dep.obj, "from") THEN {dep.obj["from"]} ELSE Null,
          version |-> IF Has(dep.obj, "version") THEN {dep.obj["version"]} ELSE Null]
    ELSE [from |-> Null, version |-> dep.value]

\* options.formatVersion, by default the identity
formatVersion(version) == version

\* updateVersions without the pickBy filter
PickedNames_Unfiltered(dependencies, versions) == DOMAIN versions

\* the names updateVersions maps: pickBy(versions, !isNil(dependencies[name]))
PickedNames(dependencies, versions) ==
    {n \in DOMAIN versions : Has(dependencies, n)}

\* updateVersions(pkg, group) throws on a picked name without a version
UpdateVersionsThrows(dependencies, versions) ==
    \E n \in PickedNames(dependencies, versions) :
        IsNil(parsePackageDependency(versions[n]).version)

\* updateVersions(pkg, group): {...dependencies, ...mapValues(picked, version)}
updateVersions(dependencies, versions) ==
    LET picked == PickedNames(dependencies, versions)
    IN  [n \in (DOMAIN dependencies) \cup picked |->
            IF n \in picked
            THEN formatVersion(ValueOf(parsePackageDependency(versions[n]).version))
            ELSE dependencies[n]]

\* a group is rewritten only when it is present and not empty
GroupUpdated(pkg, group) == Has(pkg, group) /\ DOMAIN pkg[group] # {}

updatePackageGroup(pkg, group, versions) ==
    IF GroupUpdated(pkg, group)
    THEN Put(pkg, group, updateVersions(pkg[group], versions))
    ELSE pkg

\* updatePackage(pkg, versions): the manifest, or threw
updatePackage(pkg, versions) ==
    IF \E g \in {"dependencies", "peerDependencies"} :
            GroupUpdated(pkg, g) /\ UpdateVersionsThrows(pkg[g], versions)
    THEN [threw |-> TRUE, pkg |-> pkg]
    ELSE [threw |-> FALSE,
          pkg   |-> updatePackageGroup(
                        updatePackageGroup(pkg, "dependencies", versions),
                        "peerDependencies", versions)]

\* writePackage without the isEqual test
writePackage_AlwaysWrites(file, versions) ==
    LET current == updatePackage(file, versions)
    IN  IF current.threw
        THEN [file |-> file, wrote |-> FALSE, ret |-> "threw"]
        ELSE [file |-> current.pkg, wrote |-> TRUE, ret |-> "true"]

\* writePackage(path, versions) on the manifest stored at path: the file
\* afterwards, whether it was written, and the resolved value (or "threw")
writePackage(file, versions) ==
    LET current == updatePackage(file, versions)
    IN  IF current.threw
        THEN [file |-> file, wrote |-> FALSE, ret |-> "threw"]
        ELSE IF current.pkg = file
        THEN [file |-> file, wrote |-> FALSE, ret |-> "false"]
        ELSE [file |-> current.pkg, wrote |-> TRUE, ret |-> "true"]

\* !isNil(versions[name])
VersionGiven(versions, name) ==
    Has(versions, name) /\ (versions[name].plain \/ ~IsNil(versions[name].value))

\* versions[name] is truthy: an object, or a non-empty string
VersionTruthy(versions, name) ==
    /\ VersionGiven(versions, name)
    /\ (versions[name].plain \/ ValueOf(versions[name].value) # <<>>)

\* the lockfile entries updatePackageLocks maps: those of the internal scope
LockPicked(name) == StartsWith(name, InternalScope)

\* the entry is stripped of its "integrity" field
StripIntegrity(dependency) ==
    IF Has(dependency, "integrity") THEN Del(dependency, "integrity") ELSE dependency

\* the version and "from" of an entry a version is provided for
SetLockVersion(dependency, given) ==
    LET versioned == Put(dependency, "version", formatVersion(ValueOf(given.version)))
    IN  IF ~IsNil(given.from) THEN Put(versioned, "from", ValueOf(given.from))
        ELSE IF Has(versioned, "from") THEN Del(versioned, "from")
        ELSE versioned

\* the callback stripping "integrity" only from the entries it re-versions
updateLockDependency_StripOnUpdate(dependency, name, versions) ==
    IF VersionGiven(versions, name)
    THEN StripIntegrity(SetLockVersion(dependency, parsePackageDependency(versions[name])))
    ELSE dependency

\* the mapValues callback of updatePackageLocks
updateLockDependency(dependency, name, versions) ==
    StripIntegrity(
        IF VersionGiven(versions, name)
        THEN SetLockVersion(dependency, parsePackageDependency(versions[name]))
        ELSE dependency)

UpdateLocksThrows(locks, versions) ==
    \E n \in DOMAIN locks.dependencies :
        /\ LockPicked(n)
        /\ VersionGiven(versions, n)
        /\ IsNil(parsePackageDependency(versions[n]).version)

\* updatePackageLocks(locks, versions): the lockfile, or threw
updatePackageLocks(locks, versions) ==
    IF UpdateLocksThrows(locks, versions)
    THEN [threw |-> TRUE, locks |-> locks]
    ELSE [threw |-> FALSE,
          locks |->
            [name         |-> locks.name,
             version      |-> IF VersionTruthy(versions, locks.name)
                              THEN versions[locks.name] ELSE locks.version,
             dependencies |->
                [n \in DOMAIN locks.dependencies |->
                    IF LockPicked(n)
                    THEN updateLockDependency(locks.dependencies[n], n, versions)
                    ELSE locks.dependencies[n]]]]

\* writePackageLocks(path, versions) on the lockfile stored at path
writePackageLocks(exists, file, versions) ==
    LET current == updatePackageLocks(file, versions)
    IN  IF ~exists
        THEN [file |-> file, wrote |-> FALSE, ret |-> "false"]
        ELSE IF current.threw
        THEN [file |-> file, wrote |-> FALSE, ret |-> "threw"]
        ELSE IF current.locks = file
        THEN [file |-> file, wrote |-> FALSE, ret |-> "false"]
        ELSE [file |-> current.locks, wrote |-> TRUE, ret |-> "true"]

----------------------------------------------------------------------------
(* Inputs of the manifest update *)

DependencyMaps ==
    UNION {[names -> {V190, V200}] : names \in SUBSET PackageNames}

PeerDependencyMaps ==
    UNION {[names -> {V190}] :
            names \in SUBSET {FrameworkName, NeonFrameworkName}}

\* the values a versions map gives a name: a version string, an object with
\* a version, an object without one
VersionValues ==
    {[plain |-> FALSE, value |-> {V200}],
     [plain |-> TRUE, obj |-> [version |-> V190, from |-> FromUrl]],
     [plain |-> TRUE, obj |-> [from |-> FromUrl]]}

VersionMaps ==
    UNION {[names -> VersionValues] : names \in SUBSET PackageNames}

DevDependencies == [n \in {NeonFrameworkName} |-> V190]

Manifests ==
    {[name |-> NeonFrameworkName, devDependencies |-> DevDependencies]}
    \cup
    {[name |-> NeonFrameworkName, devDependencies |-> DevDependencies,
      dependencies |-> d] : d \in DependencyMaps}
    \cup
    {[name |-> NeonFrameworkName, devDependencies |-> DevDependencies,
      peerDependencies |-> d] : d \in PeerDependencyMaps}
    \cup
    {[name |-> NeonFrameworkName, devDependencies |-> DevDependencies,
      dependencies |-> d, peerDependencies |-> e] :
        d \in DependencyMaps, e \in PeerDependencyMaps}

NoVersions == [n \in {} |-> Null]

PkgIdle ==
    /\ pkgFile = [name |-> NeonFrameworkName, devDependencies |-> DevDependencies]
    /\ pkgPrev = pkgFile
    /\ pkgArg = NoVersions
    /\ pkgRet = "none"
    /\ pkgWrote = FALSE

PkgInit ==
    /\ pkgFile \in Manifests
    /\ pkgPrev = pkgFile
    /\ pkgArg = NoVersions
    /\ pkgRet = "none"
    /\ pkgWrote = FALSE

\* writePackage(path, versions)
WritePackage(versions) ==
    LET r == writePackage(pkgFile, versions)
    IN  /\ pkgPrev' = pkgFile
        /\ pkgArg' = versions
        /\ pkgFile' = r.file
        /\ pkgWrote' = r.wrote
        /\ pkgRet' = r.ret
        /\ UNCHANGED <<refVars, lockVars, cloneVars, linkVars, validatorVars, releaseVars>>

PkgNext == \E versions \in VersionMaps : WritePackage(versions)

----------------------------------------------------------------------------
(* Inputs of the lockfile update *)

Integrity == <<"sha", "-", "1">>

LockEntries ==
    {[version |-> V190],
     [version |-> V190, integrity |-> Integrity, from |-> FromUrl]}

LockDependencies ==
    UNION {[names -> LockEntries] : names \in SUBSET PackageNames}

Lockfiles ==
    [name         : {NeonFrameworkName},
     version      : {[plain |-> FALSE, value |-> {V190}]},
     dependencies : LockDependencies]

EmptyLockfile ==
    [name |-> NeonFrameworkName,
     version |-> [plain |-> FALSE, value |-> {V190}],
     dependencies |-> [n \in {} |-> [version |-> V190]]]

LockIdle ==
    /\ lockExists = FALSE
    /\ lockFile = EmptyLockfile
    /\ lockPrev = lockFile
    /\ lockArg = NoVersions
    /\ lockRet = "none"
    /\ lockWrote = FALSE

\* a package with a lockfile, or one without
LockInit ==
    /\ \/ lockExists = TRUE /\ lockFile \in Lockfiles
       \/ lockExists = FALSE /\ lockFile = EmptyLockfile
    /\ lockPrev = lockFile
    /\ lockArg = NoVersions
    /\ lockRet = "none"
    /\ lockWrote = FALSE

\* writePackageLocks(path, versions)
WritePackageLocks(versions) ==
    LET r == writePackageLocks(lockExists, lockFile, versions)
    IN  /\ lockPrev' = lockFile
        /\ lockArg' = versions
        /\ lockFile' = r.file
        /\ lockWrote' = r.wrote
        /\ lockRet' = r.ret
        /\ UNCHANGED <<lockExists, refVars, pkgVars, cloneVars, linkVars, validatorVars, releaseVars>>

LockNext == \E versions \in VersionMaps : WritePackageLocks(versions)

----------------------------------------------------------------------------
(* Claims about the manifest update *)

UpdatedGroups == {"dependencies", "peerDependencies"}

\* the versions map gives the name a version
GivesVersion(d) == IF d.plain THEN Has(d.obj, "version") ELSE d.value # {}

\* the version a versions map gives a name
GivenVersion(d) == IF d.plain THEN d.obj["version"] ELSE ValueOf(d.value)

\* some entry of an updated group is named by the versions map
NamedEntryDeclared(pkg, versions) ==
    \E g \in UpdatedGroups :
        Has(pkg, g) /\ (DOMAIN pkg[g]) \cap (DOMAIN versions) # {}

WritePackageReturned == pkgRet \in {"true", "false"}

\* C3: the manifest update is selective: in dependencies and peerDependencies
\* exactly the entries named by the versions map get the new version, no entry
\* is added, every other entry and field is unchanged, and when no named entry
\* is declared the manifest is unchanged and writePackage reports false and
\* writes nothing.
C3_SelectiveUpdate ==
    WritePackageReturned =>
        /\ DOMAIN pkgFile = DOMAIN pkgPrev
        /\ \A k \in (DOMAIN pkgPrev) \ UpdatedGroups : pkgFile[k] = pkgPrev[k]
        /\ \A g \in UpdatedGroups \cap DOMAIN pkgPrev :
              /\ DOMAIN pkgFile[g] = DOMAIN pkgPrev[g]
              /\ \A n \in DOMAIN pkgPrev[g] :
                    pkgFile[g][n] = IF n \in DOMAIN pkgArg
                                    THEN GivenVersion(pkgArg[n])
                                    ELSE pkgPrev[g][n]
        /\ ~NamedEntryDeclared(pkgPrev, pkgArg) =>
              pkgFile = pkgPrev /\ pkgRet = "false" /\ ~pkgWrote

C3_Witness ==
    /\ pkgRet = "true"
    /\ pkgWrote
    /\ Has(pkgPrev, "dependencies")
    /\ Has(pkgPrev, "peerDependencies")
    /\ DOMAIN pkgPrev["dependencies"] = {CoreName, NeonFrameworkName}
    /\ DOMAIN pkgArg = {FrameworkName, NeonFrameworkName}
    /\ pkgPrev["dependencies"][NeonFrameworkName] = V190
    /\ pkgFile["dependencies"][NeonFrameworkName] = V200
    /\ pkgFile["dependencies"][CoreName] = pkgPrev["dependencies"][CoreName]

\* C4: the update is idempotent: updating the updated manifest again with the
\* same versions map gives the same manifest, and a second writePackage with
\* the same versions reports no change.
C4_Idempotent ==
    /\ [](WritePackageReturned =>
            updatePackage(pkgFile, pkgArg) = [threw |-> FALSE, pkg |-> pkgFile])
    /\ [][(WritePackageReturned /\ pkgArg' = pkgArg) =>
            (pkgRet' = "false" /\ ~pkgWrote' /\ pkgFile' = pkgFile)]_vars

C4_Witness ==
    /\ pkgRet = "false"
    /\ pkgPrev = pkgFile
    /\ Has(pkgFile, "dependencies")
    /\ FrameworkName \in DOMAIN pkgFile["dependencies"]
    /\ pkgFile["dependencies"][FrameworkName] = V200
    /\ FrameworkName \in DOMAIN pkgArg
    /\ ~pkgArg[FrameworkName].plain

----------------------------------------------------------------------------
(* Claims about the lockfile update *)

WritePackageLocksReturned == lockExists /\ lockRet \in {"true", "false"}

\* C5: updating a lockfile sets the version of every dependency entry named
\* by the versions map to the given version and leaves every other entry
\* unchanged, for names such as neon-extension-framework.
C5_LockVersions ==
    WritePackageLocksReturned =>
        \A n \in DOMAIN lockPrev.dependencies :
            IF n \in DOMAIN lockArg /\ GivesVersion(lockArg[n])
            THEN lockFile.dependencies[n]["version"] = GivenVersion(lockArg[n])
            ELSE lockFile.dependencies[n] = lockPrev.dependencies[n]

\* C6: after updatePackageLocks no entry of the internal namespace has an
\* integrity field, whether or not a version was supplied for it, and every
\* entry outside that namespace is exactly as it was.
C6_IntegrityStripped ==
    WritePackageLocksReturned =>
        /\ DOMAIN lockFile.dependencies = DOMAIN lockPrev.dependencies
        /\ \A n \in DOMAIN lockFile.dependencies :
              IF SubSeq(n, 1, 5) = <<"@", "radon", "-", "extension", "/">>
              THEN ~Has(lockFile.dependencies[n], "integrity")
              ELSE lockFile.dependencies[n] = lockPrev.dependencies[n]

C6_Witness ==
    /\ lockExists
    /\ lockRet = "true"
    /\ DOMAIN lockArg = {FrameworkName, NeonFrameworkName}
    /\ DOMAIN lockPrev.dependencies = PackageNames
    /\ \A n \in PackageNames : Has(lockPrev.dependencies[n], "integrity")
    /\ ~Has(lockFile.dependencies[CoreName], "integrity")
    /\ ~Has(lockFile.dependencies[FrameworkName], "integrity")
    /\ Has(lockFile.dependencies[NeonFrameworkName], "integrity")

----------------------------------------------------------------------------
(* lib/tasks/travis/install.js: clone *)

\* one attempt of resolveOne's callback on a candidate branch: the remote
\* existence check and, when the branch exists, the git clone
CloneAttempt(remote, gitOk, name, branch) ==
    IF <<name, branch>> \notin remote
    THEN [ok |-> FALSE, net |-> <<[op |-> "exists", name |-> name, branch |-> branch]>>]
    ELSE [ok  |-> gitOk,
          net |-> <<[op |-> "exists", name |-> name, branch |-> branch],
                    [op |-> "clone", name |-> name, branch |-> branch]>>]

\* resolveOne(items, fn): the first item whose promise resolves, trying the
\* items in order; rejected when none resolves
RECURSIVE resolveOne(_, _, _, _, _)
resolveOne(candidates, i, remote, gitOk, name) ==
    IF i > Len(candidates)
    THEN [ret |-> "rejected", branch |-> <<>>, net |-> <<>>]
    ELSE LET attempt == CloneAttempt(remote, gitOk, name, candidates[i])
             rest    == resolveOne(candidates, i + 1, remote, gitOk, name)
         IN  IF attempt.ok
             THEN [ret |-> "resolved", branch |-> candidates[i], net |-> attempt.net]
             ELSE [ret |-> rest.ret, branch |-> rest.branch,
                   net |-> attempt.net \o rest.net]

\* clone without the existsSync(localPath) short cut
clone_NoExistsCheck(fs, remote, gitOk, branch, name) ==
    IF ~StartsWith(name, RepositoryPrefix)
    THEN [ret |-> "rejected", branch |-> <<>>, net |-> <<>>, fs |-> fs]
    ELSE LET r == resolveOne(getBranches(branch), 1, remote, gitOk, name)
         IN  [ret |-> r.ret, branch |-> r.branch, net |-> r.net,
              fs |-> IF r.ret = "resolved" THEN fs \cup {name} ELSE fs]

\* clone(target, branch, name): fs is the set of directories that exist
\* under <target>/.modules, net the network operations the call performs
clone(fs, remote, gitOk, branch, name) ==
    IF ~StartsWith(name, RepositoryPrefix)
    THEN [ret |-> "rejected", branch |-> <<>>, net |-> <<>>, fs |-> fs]
    ELSE IF name \in fs
    THEN [ret |-> "resolved", branch |-> branch, net |-> <<>>, fs |-> fs]
    ELSE LET r == resolveOne(getBranches(branch), 1, remote, gitOk, name)
         IN  [ret |-> r.ret, branch |-> r.branch, net |-> r.net,
              fs |-> IF r.ret = "resolved" THEN fs \cup {name} ELSE fs]

RepoFramework == RepositoryPrefix \o <<"framework">>

RepoCore == RepositoryPrefix \o <<"core">>

Repositories == {RepoFramework, RepoCore}

\* names clone is asked for: repositories, and names that are not
CloneNames == Repositories \cup {<<"framework">>, FrameworkName}

V120 == <<"v", "1", ".", "2", ".", "0">>

CloneRefs == {<<"master">>, <<"develop">>, <<"feature">>, V120}

RemoteBranches == {<<"develop">>, <<"v", "1", ".", "2">>, V120}

NoCall ==
    [name |-> <<>>, branch |-> <<>>, existed |-> FALSE, ret |-> "none",
     resolved |-> <<>>]

CloneIdle ==
    /\ cloneFs = {}
    /\ cloneRemote = {}
    /\ cloneNet = <<>>
    /\ cloneCall = NoCall

\* the clone cache holds what earlier runs cloned into it
CloneInit ==
    /\ cloneFs \in SUBSET Repositories
    /\ cloneRemote \in SUBSET (Repositories \X RemoteBranches)
    /\ cloneNet = <<>>
    /\ cloneCall = NoCall

\* clone(target, branch, name)
Clone(name, branch, gitOk) ==
    LET r == clone(cloneFs, cloneRemote, gitOk, branch, name)
    IN  /\ cloneFs' = r.fs
        /\ cloneNet' = r.net
        /\ cloneCall' = [name |-> name, branch |-> branch,
                         existed |-> name \in cloneFs, ret |-> r.ret,
                         resolved |-> r.branch]
        /\ UNCHANGED <<cloneRemote, refVars, pkgVars, lockVars, linkVars, validatorVars, releaseVars>>

\* install without --reuse removes an existing <target>/.modules
RemoveModules ==
    /\ cloneFs # {}
    /\ cloneFs' = {}
    /\ cloneNet' = <<>>
    /\ cloneCall' = NoCall
    /\ UNCHANGED <<cloneRemote, refVars, pkgVars, lockVars, linkVars, validatorVars, releaseVars>>

CloneNext ==
    \/ \E name \in CloneNames, branch \in CloneRefs, gitOk \in BOOLEAN :
            Clone(name, branch, gitOk)
    \/ RemoveModules

----------------------------------------------------------------------------
(* Claims about clone *)

\* C7: clone is idempotent: when the local module directory already exists
\* the call resolves without any remote existence check or clone operation,
\* so a second clone call for the same name performs no network operation.
C7_CloneIdempotent ==
    /\ [](cloneCall.existed =>
            /\ cloneCall.ret = "resolved"
            /\ cloneCall.resolved = cloneCall.branch
            /\ cloneNet = <<>>)
    /\ [][(cloneCall.ret = "resolved" /\ cloneCall'.ret # "none"
            /\ cloneCall'.name = cloneCall.name) =>
            (cloneNet' = <<>> /\ cloneCall'.ret = "resolved"
                /\ cloneFs' = cloneFs)]_vars

C7_Witness ==
    /\ cloneCall.existed
    /\ cloneCall.name = RepoFramework
    /\ cloneCall.branch = <<"feature">>
    /\ <<RepoFramework, <<"develop">>>> \in cloneRemote
    /\ cloneCall.ret = "resolved"
    /\ cloneNet = <<>>

----------------------------------------------------------------------------
(* Paths and the files on disk *)

\* 'node_modules'
NodeModules == <<"node_", "modules">>

Root == <<"/">>

\* Path.join(path, segments)
PathJoin(path, segments) ==
    IF path = Root THEN path \o segments ELSE path \o <<"/">> \o segments

\* the path without trailing separators
RECURSIVE TrimSeparators(_)
TrimSeparators(path) ==
    IF Len(path) > 1 /\ path[Len(path)] = "/"
    THEN TrimSeparators(SubSeq(path, 1, Len(path) - 1))
    ELSE path

\* Path.basename(path)
Basename(path) ==
    LET trimmed == TrimSeparators(path)
    IN  IF trimmed = Root THEN <<>>
        ELSE SubstringFrom(trimmed, LastIndexOf(trimmed, <<"/">>) + 1)

\* Path.dirname(path) and Path.resolve(path, '..') of an absolute path
Parent(path) ==
    LET trimmed == TrimSeparators(path)
        cut     == LastIndexOf(trimmed, <<"/">>)
    IN  IF cut <= 0 THEN Root ELSE SubstringTo(trimmed, cut)

WorkPath == <<"/", "work">>

\* /work/node_modules/x
LinkX == PathJoin(PathJoin(WorkPath, NodeModules), <<"x">>)

\* /work/node_modules/m
ModuleM == PathJoin(PathJoin(WorkPath, NodeModules), <<"m">>)

\* /work/node_modules/m/node_modules/x
NestedLinkX == PathJoin(PathJoin(ModuleM, NodeModules), <<"x">>)

\* /work/node_modules/n
ModuleN == PathJoin(PathJoin(WorkPath, NodeModules), <<"n">>)

\* /work/node_modules/n/node_modules/x
NestedLinkXN == PathJoin(PathJoin(ModuleN, NodeModules), <<"x">>)

\* /work/node_modules/@radon-extension/framework
LinkFramework == PathJoin(PathJoin(WorkPath, NodeModules), FrameworkName)

\* /gone/node_modules/x, which is not on disk
GoneLinkX == PathJoin(PathJoin(<<"/", "gone">>, NodeModules), <<"x">>)

\* /lost/x, a directory with no package.json above it
LostX == <<"/", "lost", "/", "x">>

\* /modules/x
ModulesX == <<"/", "modules", "/", "x">>

\* /modules
ModulesDir == <<"/", "modules">>

LibY == <<"lib", "/", "y.js">>

LibZ == <<"lib", "/", "z.js">>

\* /work/node_modules/jquery
JQueryPath == PathJoin(PathJoin(WorkPath, NodeModules), <<"jquery">>)

SourceA == PathJoin(ModuleM, <<"src", "/", "a.js">>)

SourceB == PathJoin(ModuleM, <<"src", "/", "b.js">>)

FrameworkIndex == PathJoin(LinkFramework, <<"index.js">>)

JQueryIndex == PathJoin(JQueryPath, <<"index.js">>)

PackageSource == PathJoin(WorkPath, <<"src", "/", "p.js">>)

\* /work/node_modules/@radon-extension/core
CorePath == PathJoin(PathJoin(WorkPath, NodeModules), CoreName)

CoreIndex == PathJoin(CorePath, <<"index.js">>)

\* /work/node_modules/@radon-extension/build
BuildName == InternalScope \o <<"build">>

BuildPath == PathJoin(PathJoin(WorkPath, NodeModules), BuildName)

\* a request that is not a path on disk
LodashFp == <<"lodash", "/", "fp">>

\* a request by name for a file of react-dom
ReactDomServer == <<"react", "-", "dom", "/", "server">>

PackageChrome == InternalScope \o <<"chrome">>

ModuleMName == InternalScope \o <<"m">>

\* the "name" of the package.json files on disk, by directory
PackageJson ==
    (WorkPath :> PackageChrome)
    @@ (LinkX :> <<"x">>)
    @@ (ModuleM :> ModuleMName)
    @@ (NestedLinkX :> <<"x">>)
    @@ (ModuleN :> InternalScope \o <<"n">>)
    @@ (NestedLinkXN :> <<"x">>)
    @@ (LinkFramework :> FrameworkName)
    @@ (ModulesX :> <<"x">>)
    @@ (JQueryPath :> <<"jquery">>)
    @@ (CorePath :> CoreName)
    @@ (BuildPath :> BuildName)

DiskFiles ==
    {PathJoin(d, <<"package.json">>) : d \in DOMAIN PackageJson}
    \cup {PathJoin(LinkX, LibY), PathJoin(ModulesX, LibY), PathJoin(ModulesX, LibZ),
          SourceA, SourceB, FrameworkIndex, JQueryIndex, PackageSource, CoreIndex}

DiskDirectories == (DOMAIN PackageJson) \cup {LostX}

IsFile(path) == path \in DiskFiles

\* path is known or lies above it
IsAncestorOrSelf(path, known) ==
    \/ path = Root
    \/ /\ Len(path) <= Len(known)
       /\ SubSeq(known, 1, Len(path)) = path
       /\ (Len(path) = Len(known) \/ known[Len(path) + 1] = "/")

\* Filesystem.existsSync(path)
ExistsSync(path) ==
    \E known \in DiskFiles \cup DiskDirectories : IsAncestorOrSelf(path, known)

\* the loop of parseDependency: the nearest directory at or above path that
\* holds a package.json, the empty set when the root is passed without one
RECURSIVE FindPackagePath(_)
FindPackagePath(path) ==
    IF path \in DOMAIN PackageJson THEN {path}
    ELSE IF Parent(path) = path THEN {}
    ELSE FindPackagePath(Parent(path))

\* Validator.parseDependency(request): nil, or {name, path}
parseDependency(request) ==
    IF ~ExistsSync(request)
    THEN LET head == SubstringTo(request, IndexOf(request, <<"/">>))
         IN  [nil |-> FALSE, name |-> IF head = <<>> THEN request ELSE head,
              path |-> Null]
    ELSE LET found == FindPackagePath(IF IsFile(request) THEN Parent(request)
                                      ELSE request)
         IN  IF found = {} THEN [nil |-> TRUE, name |-> <<>>, path |-> Null]
             ELSE [nil |-> FALSE, name |-> PackageJson[ValueOf(found)],
                   path |-> found]

----------------------------------------------------------------------------
(* Validator.links: the link registry.  The registry of a (browser,        *)
(* environment) pair is the sequence of its {target: source} properties in *)
(* insertion order, which is the order ForEach visits them in.             *)

Chrome == [name |-> "chrome", package |-> <<"work">>]

Firefox == [name |-> "firefox", package |-> <<"fx">>]

Browsers == {Chrome, Firefox}

Production == [name |-> "production"]

\* the path [browser.name, environment.name] into Validator.links
LinkKey(browser, environment) == <<browser.name, environment.name>>

LinkKeys == {LinkKey(b, Production) : b \in Browsers}

HasLink(registry, target) ==
    \E k \in 1..Len(registry) : registry[k].target = target

\* Get(Validator.links, [browser.name, environment.name, target])
LinkSource(registry, target) ==
    registry[CHOOSE k \in 1..Len(registry) : registry[k].target = target].source

\* a registry that holds the new link alone
SetLink_Alone(registry, target, source) ==
    <<[target |-> target, source |-> source]>>

\* Set(Validator.links, [browser.name, environment.name, target], source)
SetLink(registry, target, source) ==
    IF HasLink(registry, target)
    THEN [k \in 1..Len(registry) |->
            IF registry[k].target = target
            THEN [target |-> target, source |-> source] ELSE registry[k]]
    ELSE Append(registry, [target |-> target, source |-> source])

\* the directory name of the package whose node_modules holds the source
SourcePackage(current) ==
    Basename(SubstringTo(current, LastIndexOf(current, NodeModules) - 1))

\* registerLink without the preference for browser package sources
registerLink_NoPreference(registry, browser, source, target) ==
    LET dep == parseDependency(source)
    IN  IF dep.nil THEN [registry |-> registry, out |-> "threw"]
        ELSE IF StartsWith(dep.name, InternalScope)
        THEN [registry |-> registry, out |-> "ignored"]
        ELSE [registry |-> SetLink(registry, target, source), out |-> "registered"]

\* Validator.registerLink(browser, environment, source, target) on the
\* registry of (browser, environment)
registerLink(registry, browser, source, target) ==
    LET dep == parseDependency(source)
    IN  IF dep.nil THEN [registry |-> registry, out |-> "threw"]
        ELSE IF StartsWith(dep.name, InternalScope)
        THEN [registry |-> registry, out |-> "ignored"]
        ELSE IF /\ HasLink(registry, target)
                /\ SourcePackage(LinkSource(registry, target)) = browser.package
        THEN [registry |-> registry, out |-> "kept"]
        ELSE [registry |-> SetLink(registry, target, source), out |-> "registered"]

\* the ForEach of resolveLink from the k-th registered link on
RECURSIVE ResolveFrom(_, _, _)
ResolveFrom(registry, k, path) ==
    IF k > Len(registry) THEN path
    ELSE LET index == IndexOf(path, registry[k].target)
         IN  IF index < 0 THEN ResolveFrom(registry, k + 1, path)
             ELSE registry[k].source
                    \o SubstringFrom(path, index + Len(registry[k].target))

\* resolveLink dropping the rest of the path
resolveLink_SourceOnly(registry, path) ==
    IF IsNil(path) THEN path
    ELSE IF \E k \in 1..Len(registry) : IndexOf(ValueOf(path), registry[k].target) >= 0
    THEN {registry[CHOOSE k \in 1..Len(registry) :
                    IndexOf(ValueOf(path), registry[k].target) >= 0].source}
    ELSE path

\* Validator.resolveLink(browser, environment, path) on the registry of
\* (browser, environment); path is optional
resolveLink(registry, path) ==
    IF IsNil(path) THEN path ELSE {ResolveFrom(registry, 1, ValueOf(path))}

LinkSources == {LinkX, NestedLinkX, LinkFramework, GoneLinkX, LostX}

LinkTargets == {ModulesX, ModulesDir}

ResolvedPaths ==
    {{PathJoin(LinkX, LibY)}, {PathJoin(ModulesX, LibY)},
     {PathJoin(<<"/", "a">> \o ModulesX, <<"z">>)}, Null}

NoLinkOp ==
    [kind |-> "none", key |-> <<>>, source |-> <<>>, target |-> <<>>,
     path |-> Null, out |-> "none", result |-> Null]

LinkIdle ==
    /\ links = [key \in LinkKeys |-> <<>>]
    /\ linkOp = NoLinkOp

\* static links = {}
LinkInit ==
    /\ links = [key \in LinkKeys |-> <<>>]
    /\ linkOp = NoLinkOp

\* the effect of registerLink(browser, environment, source, target) on
\* Validator.links
RegisterLinkCall(browser, environment, source, target) ==
    LET key == LinkKey(browser, environment)
    IN  \E r \in {registerLink(links[key], browser, source, target)} :
            /\ links' = [links EXCEPT ![key] = r.registry]
            /\ linkOp' = [kind |-> "register", key |-> key, source |-> source,
                          target |-> target, path |-> Null, out |-> r.out,
                          result |-> Null]
            /\ UNCHANGED <<refVars, pkgVars, lockVars, cloneVars, releaseVars>>

\* Validator.registerLink(browser, environment, source, target)
RegisterLink(browser, environment, source, target) ==
    /\ RegisterLinkCall(browser, environment, source, target)
    /\ UNCHANGED validatorVars

\* Validator.resolveLink(browser, environment, path)
ResolveLink(browser, environment, path) ==
    LET key == LinkKey(browser, environment)
    IN  /\ linkOp' = [kind |-> "resolve", key |-> key, source |-> <<>>,
                      target |-> <<>>, path |-> path, out |-> "none",
                      result |-> resolveLink(links[key], path)]
        /\ UNCHANGED <<links, refVars, pkgVars, lockVars, cloneVars, validatorVars, releaseVars>>

LinkNext ==
    \/ \E b \in Browsers, s \in LinkSources, t \in LinkTargets :
            RegisterLink(b, Production, s, t)
    \/ \E b \in Browsers, path \in ResolvedPaths :
            ResolveLink(b, Production, path)

\* a new run of the command: the process starts and the class is loaded,
\* static links = {}; out tells whether the run before it had registered links
StartRun ==
    /\ links' = [key \in LinkKeys |-> <<>>]
    /\ linkOp' = [NoLinkOp EXCEPT
                    !.kind = "start",
                    !.out = IF \E key \in LinkKeys : links[key] # <<>>
                            THEN "reset" ELSE "fresh"]
    /\ UNCHANGED <<refVars, pkgVars, lockVars, cloneVars, validatorVars, releaseVars>>

RunsNext ==
    \/ \E b \in Browsers, s \in LinkSources, t \in LinkTargets :
            RegisterLink(b, Production, s, t)
    \/ \E b \in Browsers, path \in ResolvedPaths :
            ResolveLink(b, Production, path)
    \/ StartRun

----------------------------------------------------------------------------
(* Claims about the link registry *)

\* the registry holds the one link registerLink(source, target) put there
OnlyLink(registry, source, target) ==
    registry = <<[target |-> target, source |-> source]>>

\* C8 as stated: after registerLink(B, E, "/work/node_modules/x", "/modules/x"),
\* resolveLink(B, E, "/work/node_modules/x/lib/y.js") is "/modules/x/lib/y.js".
C8_AsStated ==
    (/\ linkOp.kind = "resolve"
     /\ OnlyLink(links[linkOp.key], LinkX, ModulesX)
     /\ linkOp.path = {PathJoin(LinkX, LibY)})
        => linkOp.result = {PathJoin(ModulesX, LibY)}

\* C8 amended: after that registration on an empty registry, resolveLink of
\* "/modules/x/lib/y.js" is "/work/node_modules/x/lib/y.js", and
\* "/work/node_modules/x/lib/y.js" is returned unchanged.
C8_ResolveLink ==
    (linkOp.kind = "resolve" /\ OnlyLink(links[linkOp.key], LinkX, ModulesX)) =>
        /\ linkOp.path = {PathJoin(ModulesX, LibY)} =>
                linkOp.result = {PathJoin(LinkX, LibY)}
        /\ linkOp.path = {PathJoin(LinkX, LibY)} =>
                linkOp.result = {PathJoin(LinkX, LibY)}

C8_Witness ==
    /\ linkOp.kind = "resolve"
    /\ OnlyLink(links[linkOp.key], LinkX, ModulesX)
    /\ linkOp.path = {PathJoin(ModulesX, LibY)}
    /\ linkOp.result = {PathJoin(LinkX, LibY)}

\* the source is <package>/node_modules/<name>: directly in the node_modules
\* directory of the browser's own package
PackageLevel(browser, source) ==
    \E k \in 0..Len(source) :
        /\ MatchesAt(source, <<"/">> \o browser.package \o <<"/">> \o NodeModules, k)
        /\ \A j \in (k + Len(browser.package) + 3)..Len(source) :
                ~MatchesAt(source, NodeModules, j)

\* C9: once a target is registered with a source in the browser's own
\* package, no later registerLink for the same (browser, environment, target)
\* replaces it.
C9_PackageLinkKept ==
    [][\A b \in Browsers, t \in LinkTargets :
        LET key == LinkKey(b, Production)
        IN  (HasLink(links[key], t) /\ PackageLevel(b, LinkSource(links[key], t)))
                => /\ HasLink(links'[key], t)
                   /\ LinkSource(links'[key], t) = LinkSource(links[key], t)]_vars

C9_Witness ==
    /\ linkOp.kind = "register"
    /\ linkOp.key = LinkKey(Chrome, Production)
    /\ linkOp.source = NestedLinkX
    /\ linkOp.target = ModulesX
    /\ linkOp.out = "kept"
    /\ LinkSource(links[linkOp.key], ModulesX) = LinkX

\* the rewrites of a path by the registered targets that are a prefix of it
PrefixRewrites(registry, path) ==
    {registry[k].source \o SubstringFrom(path, Len(registry[k].target)) :
        k \in {j \in 1..Len(registry) : StartsWith(path, registry[j].target)}}

\* C36: resolveLink rewrites at most once and only by a registered target
\* that is a prefix of the path: a path with no registered target as its
\* prefix, one that holds a target in its middle included, is returned
\* unchanged, a nil path is returned as it is, and the result of a rewrite
\* is not rewritten again by another link
C36_PrefixOnly ==
    linkOp.kind = "resolve"
        => IF IsNil(linkOp.path) THEN linkOp.result = linkOp.path
           ELSE IF PrefixRewrites(links[linkOp.key], ValueOf(linkOp.path)) = {}
           THEN linkOp.result = linkOp.path
           ELSE /\ ~IsNil(linkOp.result)
                /\ ValueOf(linkOp.result)
                      \in PrefixRewrites(links[linkOp.key], ValueOf(linkOp.path))

\* what holds of the claim: a nil path is returned as it is, a path that
\* holds no registered target is returned unchanged, and any other result is
\* the one rewrite by the first registered target the path holds
C36_OneRewrite ==
    linkOp.kind = "resolve"
        => IF IsNil(linkOp.path) THEN linkOp.result = linkOp.path
           ELSE LET registry == links[linkOp.key]
                    path == ValueOf(linkOp.path)
                    held == {k \in 1..Len(registry) : IndexOf(path, registry[k].target) >= 0}
                IN  IF held = {} THEN linkOp.result = linkOp.path
                    ELSE LET k == CHOOSE j \in held : \A i \in held : j <= i
                         IN  linkOp.result =
                                {registry[k].source
                                   \o SubstringFrom(path, IndexOf(path, registry[k].target)
                                                            + Len(registry[k].target))}

----------------------------------------------------------------------------
(* Validator: the dependency policy applied to the compiled module graph *)

IgnoredPackages ==
    {<<"jquery">>, <<"react">>, <<"react", "-", "dom">>, <<"webpack">>}

\* \w
IsWord(t) == IsDigit(t) \/ (IsAlpha(t) /\ t \notin {"^", "~", "*", ">", "<", "="})

\* the index after the longest run of digits of s that starts at index i
RECURSIVE SkipDigits(_, _)
SkipDigits(s, i) ==
    IF i <= Len(s) /\ IsDigit(s[i]) THEN SkipDigits(s, i + 1) ELSE i

RECURSIVE SkipWords(_, _)
SkipWords(s, i) ==
    IF i <= Len(s) /\ IsWord(s[i]) THEN SkipWords(s, i + 1) ELSE i

\* s matches \.\d+ at index i: the index after the match, 0 when there is none
DotDigits(s, i) ==
    IF i <= Len(s) /\ s[i] = "." /\ SkipDigits(s, i + 1) > i + 1
    THEN SkipDigits(s, i + 1) ELSE 0

\* the expression without its optional group: /^\d+\.\d+\.\d+$/
MatchesDependencyVersion_Plain(version) ==
    LET major == SkipDigits(version, 1)
        minor == DotDigits(version, major)
        patch == DotDigits(version, minor)
    IN  major > 1 /\ minor > 0 /\ patch = Len(version) + 1

\* version.match(DependencyVersionRegex): /^\d+\.\d+\.\d+(\-\w+(\.\d+)?)?$/
MatchesDependencyVersion(version) ==
    LET major == SkipDigits(version, 1)
        minor == DotDigits(version, major)
        patch == DotDigits(version, minor)
        word  == SkipWords(version, patch + 1)
    IN  /\ major > 1 /\ minor > 0 /\ patch > 0
        /\ \/ patch = Len(version) + 1
           \/ /\ patch <= Len(version) /\ version[patch] = "-" /\ word > patch + 1
              /\ (word = Len(version) + 1 \/ DotDigits(version, word) = Len(version) + 1)

\* Find(browser.modules, predicate), given the predicate's verdict on each
\* module: the index of the first match, 0 for none
FindModule(matches) ==
    IF \E k \in 1..Len(matches) : matches[k]
    THEN CHOOSE k \in 1..Len(matches) :
            matches[k] /\ \A j \in 1..(k - 1) : ~matches[j]
    ELSE 0

\* Validator.resolveModule(browser, path, options)
resolveModule(modules, path, withDependencies) ==
    LET Matches(module) ==
            /\ ~(module.type = "package" \/ IndexOf(path, module.path) < 0)
            /\ ~(~withDependencies
                    /\ IndexOf(path, PathJoin(module.path, NodeModules)) > -1)
    IN  FindModule([k \in 1..Len(modules) |-> Matches(modules[k])])

\* the compiled modules: userRequest is optional, a reason is the name of the
\* compiled module that issued the request, "nil" for a reason without module
Compilation ==
    [a |-> [userRequest |-> {SourceA}, reasons |-> <<>>],
     b |-> [userRequest |-> {SourceB}, reasons |-> <<"a">>],
     f |-> [userRequest |-> {FrameworkIndex}, reasons |-> <<"a", "b">>],
     y |-> [userRequest |-> {PathJoin(ModulesX, LibY)},
            reasons |-> <<"a", "f", "a", "p">>],
     z |-> [userRequest |-> {PathJoin(ModulesX, LibZ)}, reasons |-> <<"y">>],
     q |-> [userRequest |-> {JQueryIndex}, reasons |-> <<"nil", "n", "b">>],
     p |-> [userRequest |-> {PackageSource}, reasons |-> <<>>],
     n |-> [userRequest |-> Null, reasons |-> <<"a">>]]

CompiledModules == DOMAIN Compilation

\* the ForEach of resolveReasons(browser, environment, module) from the k-th
\* reason of the compiled module on
RECURSIVE ResolveReasonsFrom(_, _, _, _)
ResolveReasonsFrom(registry, modules, module, k) ==
    IF k > Len(Compilation[module].reasons) THEN <<>>
    ELSE LET reason == Compilation[module].reasons[k]
             rest   == ResolveReasonsFrom(registry, modules, module, k + 1)
         IN  IF reason = "nil" \/ IsNil(Compilation[reason].userRequest) THEN rest
             ELSE LET source ==
                        ValueOf(resolveLink(registry, Compilation[reason].userRequest))
                  IN  IF resolveModule(modules, source, FALSE) # 0
                      THEN <<[request |-> ValueOf(Compilation[module].userRequest),
                              source |-> source]>> \o rest
                      ELSE ResolveReasonsFrom(registry, modules, reason, 1) \o rest

\* Validator.resolveReasons(browser, environment, module): the {module, source}
\* pairs, each kept as the module's userRequest and the source
resolveReasons(registry, modules, module) ==
    ResolveReasonsFrom(registry, modules, module, 1)

\* the outcome when the declared version is pinned: _error is set and false,
\* which has neither property, is returned
PinnedOutcome == [dependency |-> Null, valid |-> FALSE, error |-> TRUE]

Declared(collection, name) ==
    IF Has(collection, name) THEN {collection[name]} ELSE Null

\* validateRequirement without the test of peerDependencies
validateRequirement_NoPeerTest(dep, module) ==
    LET moduleDependency == Declared(module.package.dependencies, dep.name)
        invalid == [dependency |-> moduleDependency, valid |-> FALSE, error |-> FALSE]
    IN  IF IsNil(moduleDependency) THEN invalid
        ELSE IF Has(module.package.devDependencies, dep.name) THEN invalid
        ELSE IF MatchesDependencyVersion(ValueOf(moduleDependency)) THEN PinnedOutcome
        ELSE [dependency |-> moduleDependency, valid |-> TRUE, error |-> FALSE]

\* Validator.validateRequirement(dep, module)
validateRequirement(dep, module) ==
    LET moduleDependency == Declared(module.package.dependencies, dep.name)
        invalid == [dependency |-> moduleDependency, valid |-> FALSE, error |-> FALSE]
    IN  IF IsNil(moduleDependency) THEN invalid
        ELSE IF Has(module.package.devDependencies, dep.name) THEN invalid
        ELSE IF Has(module.package.peerDependencies, dep.name) THEN invalid
        ELSE IF MatchesDependencyVersion(ValueOf(moduleDependency)) THEN PinnedOutcome
        ELSE [dependency |-> moduleDependency, valid |-> TRUE, error |-> FALSE]

\* Validator.validateModule(dep, module)
validateModule(dep, module) ==
    LET moduleDependency == Declared(module.package.peerDependencies, dep.name)
        invalid == [dependency |-> moduleDependency, valid |-> FALSE, error |-> FALSE]
    IN  IF IsNil(moduleDependency) THEN invalid
        ELSE IF Has(module.package.devDependencies, dep.name) THEN invalid
        ELSE IF MatchesDependencyVersion(ValueOf(moduleDependency)) THEN PinnedOutcome
        ELSE [dependency |-> moduleDependency, valid |-> TRUE, error |-> FALSE]

\* Validator.validateDependency(dep, module)
validateDependency(dep, module) ==
    IF IndexOf(dep.name, InternalScope) = 0
    THEN validateModule(dep, module)
    ELSE validateRequirement(dep, module)

\* _isModulePermitted without the test of the name
isModulePermitted_AnyName(found, name) == TRUE

\* Validator._isModulePermitted(module, name); found is 0 for a nil module
isModulePermitted(found, name) == found = 0 \/ name = FrameworkName

\* validateReason without the record of the used dependency
validateReason_NoRecord(st, browser, environment, modules, source, request) ==
    LET dep    == parseDependency(request)
        found  == IF IsNil(source) THEN 0
                  ELSE FindModule([k \in 1..Len(modules) |->
                                    StartsWith(ValueOf(source), modules[k].path)])
        module == modules[found]
        failed == [error |-> TRUE, dependencies |-> st.dependencies, ret |-> FALSE]
        same   == [error |-> st.error, dependencies |-> st.dependencies, ret |-> FALSE]
    IN  IF dep.nil THEN same
        ELSE IF dep.name \in IgnoredPackages THEN same
        ELSE IF ~IsNil(source) /\ found = 0 THEN failed
        ELSE IF found # 0 /\ dep.name = module.name THEN [same EXCEPT !.ret = TRUE]
        ELSE IF /\ StartsWith(dep.name, InternalScope)
                /\ ~isModulePermitted(found, dep.name) THEN failed
        ELSE IF found = 0 \/ module.type = "package" THEN failed
        ELSE IF ~validateDependency(dep, module).valid THEN failed
        ELSE [same EXCEPT !.ret = TRUE]

\* validateReason without the test of the type of the module
validateReason_PackageAllowed(st, browser, environment, modules, source, request) ==
    LET dep    == parseDependency(request)
        found  == IF IsNil(source) THEN 0
                  ELSE FindModule([k \in 1..Len(modules) |->
                                    StartsWith(ValueOf(source), modules[k].path)])
        module == modules[found]
        failed == [error |-> TRUE, dependencies |-> st.dependencies, ret |-> FALSE]
        same   == [error |-> st.error, dependencies |-> st.dependencies, ret |-> FALSE]
    IN  IF dep.nil THEN same
        ELSE IF dep.name \in IgnoredPackages THEN same
        ELSE IF ~IsNil(source) /\ found = 0 THEN failed
        ELSE IF found # 0 /\ dep.name = module.name THEN [same EXCEPT !.ret = TRUE]
        ELSE IF /\ StartsWith(dep.name, InternalScope)
                /\ ~isModulePermitted(found, dep.name) THEN failed
        ELSE IF found = 0 THEN failed
        ELSE LET r == validateDependency(dep, module)
             IN  IF ~r.valid THEN failed
                 ELSE [error |-> st.error \/ r.error,
                       dependencies |->
                          IF IsNil(r.dependency) THEN st.dependencies
                          ELSE st.dependencies \cup
                                 {<<browser.name, environment.name, module.name, dep.name>>},
                       ret |-> TRUE]

\* validateReason with the ignored names tested after the source is matched
validateReason_SourceFirst(st, browser, environment, modules, source, request) ==
    LET dep    == parseDependency(request)
        found  == IF IsNil(source) THEN 0
                  ELSE FindModule([k \in 1..Len(modules) |->
                                    StartsWith(ValueOf(source), modules[k].path)])
        module == modules[found]
        failed == [error |-> TRUE, dependencies |-> st.dependencies, ret |-> FALSE]
        same   == [error |-> st.error, dependencies |-> st.dependencies, ret |-> FALSE]
    IN  IF dep.nil THEN same
        ELSE IF ~IsNil(source) /\ found = 0 THEN failed
        ELSE IF dep.name \in IgnoredPackages THEN same
        ELSE IF found # 0 /\ dep.name = module.name THEN [same EXCEPT !.ret = TRUE]
        ELSE IF /\ StartsWith(dep.name, InternalScope)
                /\ ~isModulePermitted(found, dep.name) THEN failed
        ELSE IF found = 0 \/ module.type = "package" THEN failed
        ELSE LET r == validateDependency(dep, module)
             IN  IF ~r.valid THEN failed
                 ELSE [error |-> st.error \/ r.error,
                       dependencies |->
                          IF IsNil(r.dependency) THEN st.dependencies
                          ELSE st.dependencies \cup
                                 {<<browser.name, environment.name, module.name, dep.name>>},
                       ret |-> TRUE]

\* validateReason with an unknown source that does not set _error
validateReason_UnknownSilent(st, browser, environment, modules, source, request) ==
    LET dep    == parseDependency(request)
        found  == IF IsNil(source) THEN 0
                  ELSE FindModule([k \in 1..Len(modules) |->
                                    StartsWith(ValueOf(source), modules[k].path)])
        module == modules[found]
        failed == [error |-> TRUE, dependencies |-> st.dependencies, ret |-> FALSE]
        same   == [error |-> st.error, dependencies |-> st.dependencies, ret |-> FALSE]
    IN  IF dep.nil THEN same
        ELSE IF dep.name \in IgnoredPackages THEN same
        ELSE IF ~IsNil(source) /\ found = 0 THEN same
        ELSE IF found # 0 /\ dep.name = module.name THEN [same EXCEPT !.ret = TRUE]
        ELSE IF /\ StartsWith(dep.name, InternalScope)
                /\ ~isModulePermitted(found, dep.name) THEN failed
        ELSE IF found = 0 \/ module.type = "package" THEN failed
        ELSE LET r == validateDependency(dep, module)
             IN  IF ~r.valid THEN failed
                 ELSE [error |-> st.error \/ r.error,
                       dependencies |->
                          IF IsNil(r.dependency) THEN st.dependencies
                          ELSE st.dependencies \cup
                                 {<<browser.name, environment.name, module.name, dep.name>>},
                       ret |-> TRUE]

\* Validator.validateReason(browser, environment, source, request) on the
\* validator state st = [error, dependencies]; the source is optional
validateReason(st, browser, environment, modules, source, request) ==
    LET dep    == parseDependency(request)
        found  == IF IsNil(source) THEN 0
                  ELSE FindModule([k \in 1..Len(modules) |->
                                    StartsWith(ValueOf(source), modules[k].path)])
        module == modules[found]
        failed == [error |-> TRUE, dependencies |-> st.dependencies, ret |-> FALSE]
        same   == [error |-> st.error, dependencies |-> st.dependencies, ret |-> FALSE]
    IN  IF dep.nil THEN same
        ELSE IF dep.name \in IgnoredPackages THEN same
        ELSE IF ~IsNil(source) /\ found = 0 THEN failed
        ELSE IF found # 0 /\ dep.name = module.name THEN [same EXCEPT !.ret = TRUE]
        ELSE IF /\ StartsWith(dep.name, InternalScope)
                /\ ~isModulePermitted(found, dep.name) THEN failed
        ELSE IF found = 0 \/ module.type = "package" THEN failed
        ELSE LET r == validateDependency(dep, module)
             IN  IF ~r.valid THEN failed
                 ELSE [error |-> st.error \/ r.error,
                       dependencies |->
                          IF IsNil(r.dependency) THEN st.dependencies
                          ELSE st.dependencies \cup
                                 {<<browser.name, environment.name, module.name, dep.name>>},
                       ret |-> TRUE]

\* one iteration of the ForEach of validate without the checked test
ValidatePair_Unchecked(st, browser, environment, modules, pair) ==
    LET key == <<pair.request, pair.source>>
        r   == validateReason(st, browser, environment, modules,
                              {pair.source}, pair.request)
    IN  [error |-> r.error, dependencies |-> r.dependencies,
         checked |-> st.checked \cup {key},
         calls |-> Put(st.calls, key, IF Has(st.calls, key) THEN st.calls[key] + 1 ELSE 1),
         called |-> Append(st.called, key)]

\* one iteration of the ForEach of validate; st.calls counts the validateReason
\* invocations per pair and st.called lists the ones of this validate call
ValidatePair(st, browser, environment, modules, pair) ==
    LET key == <<pair.request, pair.source>>
        r   == validateReason(st, browser, environment, modules,
                              {pair.source}, pair.request)
    IN  IF key \in st.checked THEN st
        ELSE [error |-> r.error, dependencies |-> r.dependencies,
              checked |-> st.checked \cup {key},
              calls |-> Put(st.calls, key,
                            IF Has(st.calls, key) THEN st.calls[key] + 1 ELSE 1),
              called |-> Append(st.called, key)]

RECURSIVE ValidateFrom(_, _, _, _, _, _)
ValidateFrom(st, browser, environment, modules, pairs, k) ==
    IF k > Len(pairs) THEN st
    ELSE ValidateFrom(ValidatePair(st, browser, environment, modules, pairs[k]),
                      browser, environment, modules, pairs, k + 1)

\* Validator.validate(browser, environment, module)
validate(st, registry, browser, environment, modules, module) ==
    IF IsNil(Compilation[module].userRequest) THEN st
    ELSE ValidateFrom(st, browser, environment, modules,
                      resolveReasons(registry, modules, module), 1)

\* the property name Set and the [] operator give a null path element
NullKey == <<"null">>

\* this.dependencies[browser.name][environment.name][moduleName]: the names
\* recorded for the module
Matched(recorded, browser, environment, moduleName) ==
    {t[4] : t \in {u \in recorded : /\ u[1] = browser.name
                                    /\ u[2] = environment.name
                                    /\ u[3] = moduleName}}

\* the keys of an object as for..in visits them
RECURSIVE KeysOf(_)
KeysOf(names) ==
    IF names = {} THEN <<>>
    ELSE LET name == CHOOSE n \in names : TRUE
         IN  <<name>> \o KeysOf(names \ {name})

\* the loop of _checkDependencies without the exemption of internal names
RECURSIVE CheckFrom_NoScopeTest(_, _, _, _)
CheckFrom_NoScopeTest(keys, k, matched, moduleName) ==
    IF k > Len(keys) THEN <<>>
    ELSE IF keys[k] \in matched
    THEN CheckFrom_NoScopeTest(keys, k + 1, matched, moduleName)
    ELSE <<[name |-> keys[k], module |-> moduleName]>>
            \o CheckFrom_NoScopeTest(keys, k + 1, matched, moduleName)

\* the loop of _checkDependencies over the keys from the k-th on: the
\* warnings, each the dependency name and the optional module name
RECURSIVE CheckFrom(_, _, _, _)
CheckFrom(keys, k, matched, moduleName) ==
    IF k > Len(keys) THEN <<>>
    ELSE IF StartsWith(keys[k], InternalScope) \/ keys[k] \in matched
    THEN CheckFrom(keys, k + 1, matched, moduleName)
    ELSE <<[name |-> keys[k], module |-> moduleName]>>
            \o CheckFrom(keys, k + 1, matched, moduleName)

\* Validator._checkDependencies('Dependency', current, matched, moduleName)
checkDependencies(current, matched, moduleName) ==
    CheckFrom(KeysOf(DOMAIN current), 1, matched, moduleName)

\* the ForEach of finish over browser.modules from the k-th module on
RECURSIVE FinishModules(_, _, _, _, _)
FinishModules(recorded, browser, environment, modules, k) ==
    IF k > Len(modules) THEN <<>>
    ELSE IF modules[k].type \in {"package", "tool"}
    THEN FinishModules(recorded, browser, environment, modules, k + 1)
    ELSE checkDependencies(modules[k].package.dependencies,
                           Matched(recorded, browser, environment, modules[k].name),
                           {modules[k].name})
            \o FinishModules(recorded, browser, environment, modules, k + 1)

\* finish without the test of the error flag
finish_IgnoresError(st, browser, environment, modules, extension) ==
    IF ~\E t \in st.dependencies :
                t[1] = browser.name /\ t[2] = environment.name
    THEN [outcome |-> "nodependencies", reports |-> <<>>]
    ELSE [outcome |-> "ok",
          reports |->
            checkDependencies(extension,
                              Matched(st.dependencies, browser, environment, NullKey),
                              Null)
            \o FinishModules(st.dependencies, browser, environment, modules, 1)]

\* finish testing the whole index instead of the entry of the browser
finish_AnyBrowser(st, browser, environment, modules, extension) ==
    IF st.error THEN [outcome |-> "validation", reports |-> <<>>]
    ELSE IF st.dependencies = {}
    THEN [outcome |-> "nodependencies", reports |-> <<>>]
    ELSE [outcome |-> "ok",
          reports |->
            checkDependencies(extension,
                              Matched(st.dependencies, browser, environment, NullKey),
                              Null)
            \o FinishModules(st.dependencies, browser, environment, modules, 1)]

\* Validator.finish(browser, environment) on the validator state: which error
\* is thrown, if any, and the warnings logged
finish(st, browser, environment, modules, extension) ==
    IF st.error THEN [outcome |-> "validation", reports |-> <<>>]
    ELSE IF ~\E t \in st.dependencies :
                t[1] = browser.name /\ t[2] = environment.name
    THEN [outcome |-> "nodependencies", reports |-> <<>>]
    ELSE [outcome |-> "ok",
          reports |->
            checkDependencies(extension,
                              Matched(st.dependencies, browser, environment, NullKey),
                              Null)
            \o FinishModules(st.dependencies, browser, environment, modules, 1)]

\* the package.json collections of a tracked module
Declarations(deps, dev, peer) ==
    [dependencies |-> deps, devDependencies |-> dev, peerDependencies |-> peer]

NoDeclarations == <<>>

Range190 == <<"^">> \o V190

\* 1.9.0-beta.1
V190Beta1 == V190 \o <<"-", "beta", ".", "1">>

\* 1.9.x
Range19x == <<"1", ".", "9", ".", "x">>

\* browser.modules with the given declarations of module m
ModulesWith(package) ==
    <<[name |-> BuildName, type |-> "tool", path |-> BuildPath,
       package |-> Declarations((<<"webpack">> :> Range190), NoDeclarations, NoDeclarations)],
      [name |-> ModuleMName, type |-> "destination", path |-> ModuleM,
       package |-> package],
      [name |-> FrameworkName, type |-> "core", path |-> LinkFramework,
       package |-> Declarations((<<"x">> :> Range190) @@ (<<"y">> :> Range190),
                                NoDeclarations, NoDeclarations)],
      [name |-> PackageChrome, type |-> "package", path |-> WorkPath,
       package |-> Declarations((<<"x">> :> Range190), NoDeclarations, NoDeclarations)]>>

\* browser.extension.package.dependencies
ExtensionDependencies == (<<"x">> :> Range190) @@ (FrameworkName :> Range190)

ModuleDeclarations ==
    {Declarations(deps, dev, peer) :
        deps \in {NoDeclarations, <<"x">> :> Range190, <<"x">> :> V190},
        dev \in {NoDeclarations, <<"x">> :> Range190},
        peer \in {NoDeclarations, FrameworkName :> Range190}}

\* the symbolic links in the node_modules directories of the modules
Symlinks ==
    {[source |-> LinkX, target |-> ModulesX],
     [source |-> NestedLinkX, target |-> ModulesX]}

NoCalls == <<>>

\* the record of the last call: validate fills module, pairs and called,
\* validateReason fills source, request and ret, finish fills browser,
\* outcome and reports
NoValidate ==
    [op |-> "none", module |-> "none", pairs |-> <<>>, called |-> <<>>,
     source |-> Null, request |-> <<>>, ret |-> FALSE,
     browser |-> "none", outcome |-> "none", reports |-> <<>>]

ValidatorIdle ==
    /\ browserModules = <<>>
    /\ vPhase = "idle"
    /\ vPending = {}
    /\ checked = {}
    /\ vDependencies = {}
    /\ vError = FALSE
    /\ vCalls = NoCalls
    /\ vOp = NoValidate

\* constructor(), for the build of one browser before its links are registered
ValidatorInit ==
    /\ browserModules \in {ModulesWith(package) : package \in ModuleDeclarations}
    /\ vPhase = "links"
    /\ vPending = Symlinks
    /\ checked = {}
    /\ vDependencies = {}
    /\ vError = FALSE
    /\ vCalls = NoCalls
    /\ vOp = NoValidate

\* runCompiler(compiler), once the links of every module are registered
RunCompiler ==
    /\ vPhase = "links"
    /\ vPending = {}
    /\ vPhase' = "compile"
    /\ UNCHANGED <<browserModules, vPending, checked, vDependencies, vError, vCalls, vOp>>
    /\ UNCHANGED <<refVars, pkgVars, lockVars, cloneVars, linkVars, releaseVars>>

\* Validator.validate(browser, environment, module) for a compiled module
Validate(module) ==
    LET st == [error |-> vError, dependencies |-> vDependencies,
               checked |-> checked, calls |-> vCalls, called |-> <<>>]
        registry == links[LinkKey(Chrome, Production)]
    IN  /\ vPhase = "compile"
        /\ \E r \in {validate(st, registry, Chrome, Production, browserModules, module)} :
                /\ vError' = r.error
                /\ vDependencies' = r.dependencies
                /\ checked' = r.checked
                /\ vCalls' = r.calls
                /\ vOp' = [NoValidate EXCEPT
                             !.op = "validate",
                             !.module = module,
                             !.pairs = IF IsNil(Compilation[module].userRequest) THEN <<>>
                                       ELSE resolveReasons(registry, browserModules, module),
                             !.called = r.called]
        /\ UNCHANGED <<browserModules, vPhase, vPending>>
        /\ UNCHANGED <<refVars, pkgVars, lockVars, cloneVars, linkVars, releaseVars>>

\* Validator.validateReason(browser, environment, source, request), called
\* on its own
ValidateReason(source, request) ==
    LET st == [error |-> vError, dependencies |-> vDependencies]
    IN  /\ vPhase = "compile"
        /\ \E r \in {validateReason(st, Chrome, Production, browserModules,
                                      source, request)} :
                /\ vError' = r.error
                /\ vDependencies' = r.dependencies
                /\ vOp' = [NoValidate EXCEPT !.op = "validateReason",
                             !.source = source, !.request = request, !.ret = r.ret]
        /\ UNCHANGED <<browserModules, vPhase, vPending, checked, vCalls>>
        /\ UNCHANGED <<refVars, pkgVars, lockVars, cloneVars, linkVars, releaseVars>>

\* Validator.finish(browser, environment) at the end of the compilation
Finish(browser) ==
    LET st == [error |-> vError, dependencies |-> vDependencies]
    IN  /\ vPhase = "compile"
        /\ vPhase' = "finished"
        /\ \E r \in {finish(st, browser, Production, browserModules,
                              ExtensionDependencies)} :
                vOp' = [NoValidate EXCEPT !.op = "finish", !.browser = browser.name,
                         !.outcome = r.outcome, !.reports = r.reports]
        /\ UNCHANGED <<browserModules, vPending, checked, vDependencies, vError, vCalls>>
        /\ UNCHANGED <<refVars, pkgVars, lockVars, cloneVars, linkVars, releaseVars>>

\* registerLinks(browser, environment, path) for one symbolic link; the
\* compiler runs once the links of every module are registered
RegisterLinks ==
    /\ vPhase = "links"
    /\ \E link \in vPending :
            /\ RegisterLinkCall(Chrome, Production, link.source, link.target)
            /\ vPending' = vPending \ {link}
    /\ UNCHANGED <<browserModules, vPhase, checked, vDependencies, vError, vCalls, vOp>>

ValidatorNext ==
    \/ RegisterLinks
    \/ RunCompiler
    \/ \E module \in CompiledModules : Validate(module)
    \/ \E request \in {PathJoin(ModulesX, LibY), CoreIndex} :
            ValidateReason({SourceA}, request)
    \/ Finish(Chrome)

\* the declarations of module m for the calls of validateReason: those of the
\* external package x varied with the framework declared, and those of the
\* framework varied with x declared
ReasonDeclarations ==
    {Declarations(deps, dev, peer @@ (FrameworkName :> Range190)) :
        deps \in {NoDeclarations, <<"x">> :> Range190, <<"x">> :> V190,
                  <<"x">> :> V190Beta1, <<"x">> :> Range19x},
        dev \in {NoDeclarations, <<"x">> :> Range190},
        peer \in {NoDeclarations, <<"x">> :> Range190}}
    \cup
    {Declarations((<<"x">> :> Range190) @@ deps, dev, peer) :
        deps \in {NoDeclarations, FrameworkName :> V190},
        dev \in {NoDeclarations, FrameworkName :> Range190},
        peer \in {NoDeclarations, FrameworkName :> Range190, FrameworkName :> V190,
                  (FrameworkName :> Range190) @@ (CoreName :> Range190)}}
    \cup
    {Declarations(<<"jquery">> :> V190, <<"jquery">> :> Range190,
                  FrameworkName :> Range190)}

ReasonSources == {{SourceA}, {FrameworkIndex}, {PackageSource}, {LostX}, Null}

ReasonRequests ==
    {PathJoin(ModulesX, LibY), FrameworkIndex, CoreIndex, JQueryIndex, SourceB,
     PackageSource, LostX, LodashFp, ReactDomServer}

\* a validator whose browser has no links to register, once the compiler runs
ReasonInit ==
    /\ browserModules \in {ModulesWith(package) : package \in ReasonDeclarations}
    /\ vPhase = "compile"
    /\ vPending = {}
    /\ checked = {}
    /\ vDependencies = {}
    /\ vError = FALSE
    /\ vCalls = NoCalls
    /\ vOp = NoValidate

ReasonNext ==
    \/ \E source \in ReasonSources, request \in ReasonRequests :
            ValidateReason(source, request)
    \/ \E browser \in Browsers : Finish(browser)

----------------------------------------------------------------------------
(* Claims about the validator *)

\* C10: validateReason is invoked at most once for each (module request,
\* source) pair of a Validator instance, over any sequence of validate calls.
C10_ValidatedOnce ==
    \A pair \in DOMAIN vCalls : vCalls[pair] <= 1

C10_Witness ==
    LET edge == <<PathJoin(ModulesX, LibY), SourceA>>
    IN  /\ vOp.module = "z"
        /\ \E k \in 1..Len(vOp.pairs) :
                <<vOp.pairs[k].request, vOp.pairs[k].source>> = edge
        /\ \A k \in 1..Len(vOp.called) : vOp.called[k] # edge
        /\ Has(vCalls, edge) /\ vCalls[edge] = 1

\* C11: once the error flag is set no validate or validateReason call clears
\* it, and finish() then fails with the validation error, however many edges
\* validated successfully.
C11_StickyError ==
    /\ [][vError => vError']_vars
    /\ []((vOp.op = "finish" /\ vError) => vOp.outcome = "validation")

C11_Witness ==
    /\ vOp.op = "finish"
    /\ vError
    /\ vOp.outcome = "validation"
    /\ Cardinality(vDependencies) >= 2
    /\ checked # {}

\* an edge is recorded as used for the browser in the production environment
RecordedFor(browserName) ==
    \E t \in vDependencies : t[1] = browserName /\ t[2] = Production.name

\* C12: finish() fails with the missing-dependencies error when the error
\* flag is clear and no edge is recorded for the (browser, environment) pair;
\* with the error flag set the validation error is the one reported.
C12_NoDependencies ==
    vOp.op = "finish" =>
        /\ (~vError /\ ~RecordedFor(vOp.browser)) => vOp.outcome = "nodependencies"
        /\ (vError /\ ~RecordedFor(vOp.browser)) => vOp.outcome = "validation"

C12_Witness ==
    /\ vOp.op = "finish"
    /\ vOp.browser = Firefox.name
    /\ ~vError
    /\ RecordedFor(Chrome.name)
    /\ vOp.outcome = "nodependencies"

\* the package each request belongs to, by the layout of the disk; the
\* directory /lost/x belongs to none
RequestName ==
    (PathJoin(ModulesX, LibY) :> <<"x">>)
    @@ (FrameworkIndex :> FrameworkName)
    @@ (CoreIndex :> CoreName)
    @@ (JQueryIndex :> <<"jquery">>)
    @@ (SourceB :> ModuleMName)
    @@ (PackageSource :> PackageChrome)
    @@ (LodashFp :> <<"lodash">>)
    @@ (ReactDomServer :> <<"react", "-", "dom">>)

\* the module each source file belongs to; /lost/x belongs to none
SourceOwner ==
    (SourceA :> ModuleMName)
    @@ (FrameworkIndex :> FrameworkName)
    @@ (PackageSource :> PackageChrome)

\* the last call is validateReason for a source of a known module and a
\* request of a known package
ReasonCalled ==
    /\ vOp.op = "validateReason"
    /\ ~IsNil(vOp.source)
    /\ ValueOf(vOp.source) \in DOMAIN SourceOwner
    /\ vOp.request \in DOMAIN RequestName

CalledOwner == SourceOwner[ValueOf(vOp.source)]

CalledName == RequestName[vOp.request]

CalledEdge == <<Chrome.name, Production.name, CalledOwner, CalledName>>

\* C13 as stated: every edge (M, D) for which validateReason returns true is
\* recorded in the used-dependency index.
C13_AsStated ==
    (ReasonCalled /\ vOp.ret) => CalledEdge \in vDependencies

\* C13 amended: every edge (M, D) with D other than the name of M for which
\* validateReason returns true is recorded in the used-dependency index.
C13_Recorded ==
    (ReasonCalled /\ vOp.ret /\ CalledName # CalledOwner)
        => CalledEdge \in vDependencies

C13_Witness ==
    /\ ReasonCalled
    /\ vOp.ret
    /\ vOp.source = {SourceA}
    /\ vOp.request = PathJoin(ModulesX, LibY)
    /\ CalledEdge \in vDependencies

\* the declared versions that are exact: digits.digits.digits, alone or with
\* a pre-release suffix
PinnedVersions == {V190, V190Beta1}

\* the module of browser.modules with the name
ModuleNamed(name) ==
    browserModules[CHOOSE k \in 1..Len(browserModules) : browserModules[k].name = name]

IsInternal(name) ==
    /\ Len(name) >= Len(InternalScope)
    /\ SubSeq(name, 1, Len(InternalScope)) = InternalScope

\* the collection the policy expects the declaration in
ExpectedCollection(module, name) ==
    IF IsInternal(name) THEN module.package.peerDependencies
    ELSE module.package.dependencies

DeclarationValid(module, name) ==
    /\ name \in DOMAIN ExpectedCollection(module, name)
    /\ name \notin DOMAIN module.package.devDependencies
    /\ (~IsInternal(name) => name \notin DOMAIN module.package.peerDependencies)
    /\ ExpectedCollection(module, name)[name] \notin PinnedVersions

\* the last call is one the declaration policy decides: the source belongs
\* to a module that is not of type package, the name is not ignored, is not
\* the module's own and passes the allow-list
ReachesPolicy ==
    /\ ReasonCalled
    /\ ModuleNamed(CalledOwner).type # "package"
    /\ CalledName \notin IgnoredPackages
    /\ CalledName # CalledOwner
    /\ (IsInternal(CalledName) => CalledName = FrameworkName)

C15_WitnessValid ==
    /\ ReachesPolicy
    /\ vOp.source = {SourceA}
    /\ vOp.request = FrameworkIndex
    /\ vOp.ret
    /\ CalledEdge \in vDependencies

\* C16 as stated: every dependency requested from a source of a module of
\* type package fails: validateReason returns false and the error flag is set.
C16_AsStated ==
    (ReasonCalled /\ ModuleNamed(CalledOwner).type = "package")
        => (~vOp.ret /\ vError)

\* C16 amended: every dependency requested from a source of a module of type
\* package, other than an ignored name and the package's own name, fails:
\* validateReason returns false and the error flag is set.
C16_PackageFails ==
    (/\ ReasonCalled
     /\ ModuleNamed(CalledOwner).type = "package"
     /\ CalledName \notin IgnoredPackages
     /\ CalledName # CalledOwner)
        => (~vOp.ret /\ vError)

\* the package requests x, which it declares with a range
C16_Witness ==
    /\ ReasonCalled
    /\ vOp.source = {PackageSource}
    /\ vOp.request = PathJoin(ModulesX, LibY)
    /\ <<"x">> \in DOMAIN ModuleNamed(PackageChrome).package.dependencies
    /\ ~vOp.ret
    /\ vError

\* C17: an internal dependency other than the framework, requested from a
\* known module under another name than the module's own, is a hard error:
\* the error flag is set and the edge is not recorded, also when the module
\* declares it as the policy asks.
C17_AllowList ==
    (/\ ReasonCalled
     /\ IsInternal(CalledName)
     /\ CalledName # CalledOwner
     /\ CalledName # FrameworkName)
        => (~vOp.ret /\ vError /\ CalledEdge \notin vDependencies)

\* module m requests the core, declared in peerDependencies with a range
C17_Witness ==
    /\ ReasonCalled
    /\ vOp.source = {SourceA}
    /\ vOp.request = CoreIndex
    /\ DeclarationValid(ModuleNamed(ModuleMName), CoreName)
    /\ ~vOp.ret
    /\ vError
    /\ CalledEdge \notin vDependencies

\* the names of the ignore list
IgnoreList ==
    {<<"jquery">>, <<"react">>, <<"react", "-", "dom">>, <<"webpack">>}

\* C18: a call of validateReason for a request whose dependency name is on
\* the ignore list leaves the error flag and the used-dependency index as
\* they were, whatever the source and whatever the module declares.
C18_IgnoredSkipped ==
    [][(/\ vOp'.op = "validateReason"
        /\ vOp'.request \in DOMAIN RequestName
        /\ RequestName[vOp'.request] \in IgnoreList)
            => (vError' = vError /\ vDependencies' = vDependencies)]_vars

\* jquery was requested from a source of no known module, the modules
\* declaring it with an exact version, and the flag is still clear
C18_Witness ==
    /\ vOp.op = "validateReason"
    /\ vOp.request = JQueryIndex
    /\ vOp.source = {LostX}
    /\ <<"jquery">> \in DOMAIN ModuleNamed(ModuleMName).package.dependencies
    /\ ~vError
    /\ vDependencies = {}

\* the source of the call is a path under the path of no module
UnknownSource(op) ==
    /\ op.op = "validateReason"
    /\ ~IsNil(op.source)
    /\ \A k \in 1..Len(browserModules) :
            ~StartsWith(ValueOf(op.source), browserModules[k].path)
    /\ op.request \in DOMAIN RequestName
    /\ RequestName[op.request] \notin IgnoreList

\* C19: a request for a name that is not ignored, from a source under the
\* path of no known module, is a hard error: validateReason sets the error
\* flag, returns false and records nothing.
C19_UnknownSource ==
    /\ [](UnknownSource(vOp) => (~vOp.ret /\ vError))
    /\ [][UnknownSource(vOp') => vDependencies' = vDependencies]_vars

\* x was requested from /lost/x after an edge of module m was recorded
C19_Witness ==
    /\ UnknownSource(vOp)
    /\ vOp.source = {LostX}
    /\ vOp.request = PathJoin(ModulesX, LibY)
    /\ ~vOp.ret
    /\ vError
    /\ vDependencies # {}

\* how many warnings of finish name the dependency for the module
ReportCount(name, moduleName) ==
    Cardinality({k \in DOMAIN vOp.reports :
                    vOp.reports[k] = [name |-> name, module |-> {moduleName}]})

\* C20: when finish runs with the error flag clear and an edge recorded for
\* the browser and environment, it does not fail, and for every module that
\* is neither of type package nor of type tool each entry of its
\* dependencies is reported as unused exactly once when it is not internal
\* and was never recorded as used for the module, and is not reported
\* otherwise.
C20_UnusedAudit ==
    (vOp.op = "finish" /\ ~vError /\ RecordedFor(vOp.browser))
        => /\ vOp.outcome = "ok"
           /\ \A k \in 1..Len(browserModules) :
                browserModules[k].type \notin {"package", "tool"}
                    => \A name \in DOMAIN browserModules[k].package.dependencies :
                          ReportCount(name, browserModules[k].name) =
                            IF /\ ~IsInternal(name)
                               /\ <<vOp.browser, Production.name,
                                     browserModules[k].name, name>> \notin vDependencies
                            THEN 1 ELSE 0

\* finish after module m used the framework and not the x it declares
C20_Witness ==
    /\ vOp.op = "finish"
    /\ vOp.outcome = "ok"
    /\ <<Chrome.name, Production.name, ModuleMName, FrameworkName>> \in vDependencies
    /\ <<"x">> \in DOMAIN ModuleNamed(ModuleMName).package.dependencies
    /\ FrameworkName \in DOMAIN ModuleNamed(ModuleMName).package.dependencies
    /\ ReportCount(<<"x">>, ModuleMName) = 1
    /\ ReportCount(FrameworkName, ModuleMName) = 0

----------------------------------------------------------------------------
(* release:push, the two polling loops.  A loop is the record of its      *)
(* closure: the attempts counter, the number of queries sent, where the   *)
(* promise stands ("timer": run is scheduled, "query": a request is in    *)
(* flight, "resolved", "rejected") and what it settled with.  The delays  *)
(* of setTimeout order the steps and are not part of the state.           *)

\* commits
Shas == {<<"c1">>, <<"c2">>}

\* Date.now() and Date.parse(created_at), in ticks
Times == 0..2

TravisHost == "https://travis-ci.org/"

\* target_url of a travis status: a build page, a build page without its
\* number, a page of another host, a page with a single path segment
BuildUrl == <<TravisHost, "RadonApp", "/", "repo", "/builds/", "4", "2">>

Urls ==
    {BuildUrl,
     <<TravisHost, "RadonApp", "/", "repo", "/builds/">>,
     <<"https://example.org/", "RadonApp", "/", "repo", "/builds/", "4", "2">>,
     <<TravisHost, "RadonApp", "/builds/", "7">>}

\* /https:\/\/travis-ci\.org\/.*?\/.*?\/builds\/(\d+)/.exec(url): the
\* captured digits, nil when the expression does not match
ExecBuildUrl(url) ==
    LET Starts ==
            {i \in 1..Len(url) :
                /\ url[i] = TravisHost
                /\ \E j \in (i + 1)..Len(url), k \in (i + 1)..Len(url) :
                        /\ j < k
                        /\ url[j] = "/"
                        /\ url[k] = "/builds/"
                        /\ k < Len(url)
                        /\ IsDigit(url[k + 1])}
    IN  IF Starts = {} THEN Null
        ELSE LET i == CHOOSE x \in Starts : \A y \in Starts : x <= y
                 k == CHOOSE x \in (i + 1)..Len(url) :
                        /\ url[x] = "/builds/"
                        /\ x < Len(url)
                        /\ IsDigit(url[x + 1])
                        /\ \E j \in (i + 1)..(x - 1) : url[j] = "/"
                        /\ \A y \in (i + 1)..(x - 1) :
                              ~(/\ url[y] = "/builds/"
                                /\ IsDigit(url[y + 1])
                                /\ \E j \in (i + 1)..(y - 1) : url[j] = "/")
             IN  {SubSeq(url, k + 1, SkipDigits(url, k + 1) - 1)}

\* the travis status of a combined status
TravisStatuses == [created : Times, url : Urls]

\* what getCombinedStatusForRef answers: an error, or the sha of the ref and
\* its status of context continuous-integration/travis-ci/push, if any
StatusAnswers ==
    [err : {TRUE}, sha : {<<"c1">>}, travis : {Null}]
    \cup [err : {FALSE}, sha : Shas,
          travis : {Null} \cup {{t} : t \in TravisStatuses}]

NewStatusPoll ==
    [attempts |-> 0, queries |-> 0, pc |-> "timer", value |-> Null,
     error |-> "none", answer |-> Null]

\* run() of getTravisStatus with a budget test that fails one attempt early
statusRun_Early(p, options) ==
    LET attempts == p.attempts + 1
    IN  IF attempts >= options.retryAttempts
        THEN [p EXCEPT !.attempts = attempts, !.pc = "rejected",
                       !.error = "unavailable"]
        ELSE [p EXCEPT !.attempts = attempts, !.pc = "query",
                       !.queries = p.queries + 1]

\* run() of getTravisStatus
statusRun(p, options) ==
    LET attempts == p.attempts + 1
    IN  IF attempts > options.retryAttempts
        THEN [p EXCEPT !.attempts = attempts, !.pc = "rejected",
                       !.error = "unavailable"]
        ELSE [p EXCEPT !.attempts = attempts, !.pc = "query",
                       !.queries = p.queries + 1]

\* the callbacks of getCombinedStatusForRef without the test of the sha
statusCallback_AnySha(p, options, answer) ==
    LET q == [p EXCEPT !.answer = {answer}]
    IN  IF answer.err THEN [q EXCEPT !.pc = "rejected", !.error = "query"]
        ELSE IF IsNil(answer.travis) THEN [q EXCEPT !.pc = "timer"]
        ELSE IF /\ ~IsNil(options.createdAfter)
                /\ ValueOf(answer.travis).created < ValueOf(options.createdAfter)
        THEN [q EXCEPT !.pc = "timer"]
        ELSE [q EXCEPT !.pc = "resolved", !.value = answer.travis]

\* the callbacks of getCombinedStatusForRef with a failed query retried
statusCallback_RetryError(p, options, answer) ==
    LET q == [p EXCEPT !.answer = {answer}]
    IN  IF answer.err THEN [q EXCEPT !.pc = "timer"]
        ELSE IF ~IsNil(options.sha) /\ answer.sha # ValueOf(options.sha)
        THEN [q EXCEPT !.pc = "timer"]
        ELSE IF IsNil(answer.travis) THEN [q EXCEPT !.pc = "timer"]
        ELSE IF /\ ~IsNil(options.createdAfter)
                /\ ValueOf(answer.travis).created < ValueOf(options.createdAfter)
        THEN [q EXCEPT !.pc = "timer"]
        ELSE [q EXCEPT !.pc = "resolved", !.value = answer.travis]

\* the callbacks of getCombinedStatusForRef in getTravisStatus
statusCallback(p, options, answer) ==
    LET q == [p EXCEPT !.answer = {answer}]
    IN  IF answer.err THEN [q EXCEPT !.pc = "rejected", !.error = "query"]
        ELSE IF ~IsNil(options.sha) /\ answer.sha # ValueOf(options.sha)
        THEN [q EXCEPT !.pc = "timer"]
        ELSE IF IsNil(answer.travis) THEN [q EXCEPT !.pc = "timer"]
        ELSE IF /\ ~IsNil(options.createdAfter)
                /\ ValueOf(answer.travis).created < ValueOf(options.createdAfter)
        THEN [q EXCEPT !.pc = "timer"]
        ELSE [q EXCEPT !.pc = "resolved", !.value = answer.travis]

\* the states of a travis build
BuildStates == {"created", "started", "passed", "failed", "errored"}

\* what travis.builds(id).get answers: an error, or the branch of the commit
\* and the state of the build
BuildAnswers ==
    [err : {TRUE}, branch : {"ref"}, state : {"created"}]
    \cup [err : {FALSE}, branch : {"ref", "other"}, state : BuildStates]

NewBuildPoll ==
    [attempts |-> 0, queries |-> 0, interval |-> 15 * 1000, pc |-> "timer",
     value |-> "none", error |-> "none", answer |-> Null]

\* run() of awaitTravisBuild with a budget test that fails one attempt early
buildRun_Early(b, options) ==
    LET attempts == b.attempts + 1
        interval == IF b.interval < options.maximumInterval
                    THEN (15 + (attempts \div 5)) * 1000 ELSE b.interval
    IN  IF attempts >= options.maximumAttempts
        THEN [b EXCEPT !.attempts = attempts, !.interval = interval,
                       !.pc = "rejected", !.error = "timeout"]
        ELSE [b EXCEPT !.attempts = attempts, !.interval = interval,
                       !.pc = "query", !.queries = b.queries + 1]

\* run() of awaitTravisBuild
buildRun(b, options) ==
    LET attempts == b.attempts + 1
        interval == IF b.interval < options.maximumInterval
                    THEN (15 + (attempts \div 5)) * 1000 ELSE b.interval
    IN  IF attempts > options.maximumAttempts
        THEN [b EXCEPT !.attempts = attempts, !.interval = interval,
                       !.pc = "rejected", !.error = "timeout"]
        ELSE [b EXCEPT !.attempts = attempts, !.interval = interval,
                       !.pc = "query", !.queries = b.queries + 1]

\* the callback of travis.builds(id).get in awaitTravisBuild
buildCallback(b, buildRef, answer) ==
    LET c == [b EXCEPT !.answer = {answer}]
    IN  IF answer.err THEN [c EXCEPT !.pc = "timer"]
        ELSE IF answer.branch # buildRef
        THEN [c EXCEPT !.pc = "rejected", !.error = "incorrect"]
        ELSE IF answer.state \in {"created", "started"} THEN [c EXCEPT !.pc = "timer"]
        ELSE [c EXCEPT !.pc = "resolved", !.value = answer.state]

Settled(p) == p.pc \in {"resolved", "rejected"}

\* the budgets the loops are called with
Budgets == 1..MaxBudget

StatusOptions ==
    [sha : {Null, {<<"c1">>}}, createdAfter : {Null, {1}}, retryAttempts : Budgets]

BuildOptions == [maximumAttempts : Budgets, maximumInterval : {45 * 1000}]

PollIdle ==
    /\ pollOpts = [status |-> [sha |-> Null, createdAfter |-> Null, retryAttempts |-> 0],
                   build |-> [maximumAttempts |-> 0, maximumInterval |-> 0]]
    /\ statusPoll = [NewStatusPoll EXCEPT !.pc = "idle"]
    /\ buildPoll = [NewBuildPoll EXCEPT !.pc = "idle"]

\* getTravisStatus(log, module, ref, options) and
\* awaitTravisBuild(log, module, ref, id, options) just called
PollInit ==
    /\ pollOpts \in [status : StatusOptions, build : BuildOptions]
    /\ statusPoll = NewStatusPoll
    /\ buildPoll = NewBuildPoll

\* the timer of getTravisStatus fires
StatusRun ==
    /\ statusPoll.pc = "timer"
    /\ statusPoll' = statusRun(statusPoll, pollOpts.status)
    /\ UNCHANGED <<pollOpts, buildPoll, pushVars, modVars, orchVars, baseVars>>

\* GitHub answers the status query
StatusCallback ==
    /\ statusPoll.pc = "query"
    /\ \E answer \in StatusAnswers :
            statusPoll' = statusCallback(statusPoll, pollOpts.status, answer)
    /\ UNCHANGED <<pollOpts, buildPoll, pushVars, modVars, orchVars, baseVars>>

\* run of awaitTravisBuild is called, at once or by its timer
BuildRun ==
    /\ buildPoll.pc = "timer"
    /\ buildPoll' = buildRun(buildPoll, pollOpts.build)
    /\ UNCHANGED <<pollOpts, statusPoll, pushVars, modVars, orchVars, baseVars>>

\* Travis CI answers the build query
BuildCallback ==
    /\ buildPoll.pc = "query"
    /\ \E answer \in BuildAnswers :
            buildPoll' = buildCallback(buildPoll, "ref", answer)
    /\ UNCHANGED <<pollOpts, statusPoll, pushVars, modVars, orchVars, baseVars>>

PollNext == StatusRun \/ StatusCallback \/ BuildRun \/ BuildCallback

\* no release is being pushed
PushIdle ==
    /\ prIn = <<>>
    /\ prStage = "idle"
    /\ prOutcome = "none"
    /\ prTag = <<>>
    /\ prRemotes = <<>>
    /\ prModules = <<>>
    /\ prBranch = 0
    /\ prTasks = <<>>
    /\ prLog = <<>>

\* no module is being resolved
ModIdle ==
    /\ modIn = <<>>
    /\ modOut = <<>>

\* no module graph is being built
GraphIdle ==
    /\ grIn = <<>>
    /\ grOut = <<>>

\* nothing is being installed
InstallIdle ==
    /\ instIn = <<>>
    /\ inst = <<>>

\* no links are being registered for a build
FanIdle ==
    /\ fanIn = <<>>
    /\ fanPending = <<>>
    /\ fanPhase = "idle"

\* no reasons are being resolved call by call
ReasonsIdle ==
    /\ rsIn = <<>>
    /\ rsStack = <<>>
    /\ rsOut = <<>>

OrchIdle == GraphIdle /\ InstallIdle /\ FanIdle /\ ReasonsIdle

ReleaseIdle == PollIdle /\ PushIdle /\ ModIdle /\ OrchIdle

----------------------------------------------------------------------------
(* release:push, awaitBuild: the two loops run one after the other against *)
(* the answers the services give, in the order they give them              *)

\* retryAttempts of getTravisStatus when the caller gives none
RetryAttempts == 20

\* maximumAttempts of awaitTravisBuild when the caller gives none
MaximumAttempts == 120

\* getTravisStatus from the loop p on, answers[k] being the next answer; the
\* loop is left as it stands when the answers run out
RECURSIVE RunStatus(_, _, _, _)
RunStatus(p, options, answers, k) ==
    IF Settled(p) THEN p
    ELSE IF p.pc = "timer" THEN RunStatus(statusRun(p, options), options, answers, k)
    ELSE IF k > Len(answers) THEN p
    ELSE RunStatus(statusCallback(p, options, answers[k]), options, answers, k + 1)

\* awaitTravisBuild from the loop b on
RECURSIVE RunBuild(_, _, _, _)
RunBuild(b, options, answers, k) ==
    IF Settled(b) THEN b
    ELSE IF b.pc = "timer" THEN RunBuild(buildRun(b, options), options, answers, k)
    ELSE IF k > Len(answers) THEN b
    ELSE RunBuild(buildCallback(b, "ref", answers[k]), options, answers, k + 1)

\* awaitBuild(log, module, ref, options): how the promise settles ("timer"
\* or "query" when the answers run out before it does), the state it
\* resolves with, and the number of queries sent
awaitBuild(options, statusAnswers, buildAnswers) ==
    IF options.dryRun
    THEN [pc |-> "resolved", value |-> "success", queries |-> 0]
    ELSE LET p == RunStatus(NewStatusPoll,
                            [sha |-> options.sha, createdAfter |-> options.createdAfter,
                             retryAttempts |-> RetryAttempts],
                            statusAnswers, 1)
         IN  IF p.pc # "resolved"
             THEN [pc |-> p.pc, value |-> "none", queries |-> p.queries]
             ELSE IF IsNil(ExecBuildUrl(ValueOf(p.value).url))
             THEN [pc |-> "rejected", value |-> "none", queries |-> p.queries]
             ELSE LET b == RunBuild(NewBuildPoll,
                                    [maximumAttempts |-> MaximumAttempts,
                                     maximumInterval |-> 45 * 1000],
                                    buildAnswers, 1)
                  IN  [pc |-> b.pc, value |-> b.value,
                       queries |-> p.queries + b.queries]

\* answers of GitHub during one awaitBuild: the status of the pushed commit
\* at once, after an answer without status, for another commit or with a
\* status older than the push; a failed query; a status with a foreign url
GoodStatus == [err |-> FALSE, sha |-> <<"c1">>, travis |-> {[created |-> 1, url |-> BuildUrl]}]

PushStatusRuns ==
    {<<GoodStatus>>,
     <<[GoodStatus EXCEPT !.travis = Null], GoodStatus>>,
     <<[GoodStatus EXCEPT !.sha = <<"c2">>], GoodStatus>>,
     <<[GoodStatus EXCEPT !.travis = {[created |-> 0, url |-> BuildUrl]}], GoodStatus>>,
     <<[err |-> TRUE, sha |-> <<"c1">>, travis |-> Null]>>,
     <<[GoodStatus EXCEPT !.travis =
            {[created |-> 2, url |-> <<TravisHost, "RadonApp", "/builds/", "7">>]}]>>}

\* answers of Travis CI during one awaitBuild
PushBuildRuns ==
    {<<[err |-> FALSE, branch |-> "ref", state |-> "passed"]>>,
     <<[err |-> FALSE, branch |-> "ref", state |-> "started"],
       [err |-> FALSE, branch |-> "ref", state |-> "passed"]>>,
     <<[err |-> TRUE, branch |-> "ref", state |-> "created"],
       [err |-> FALSE, branch |-> "ref", state |-> "failed"]>>,
     <<[err |-> FALSE, branch |-> "ref", state |-> "failed"]>>,
     <<[err |-> FALSE, branch |-> "ref", state |-> "errored"]>>,
     <<[err |-> FALSE, branch |-> "other", state |-> "passed"]>>}

\* the ways awaitBuild settles
AwaitOutcomes(options) ==
    {r \in {awaitBuild(options, sa, ba) : sa \in PushStatusRuns, ba \in PushBuildRuns} :
        r.pc \in {"resolved", "rejected"}}

----------------------------------------------------------------------------
(* release:push, pushRelease.  The pushes of one branch, and then of the   *)
(* tag, run for all selected modules at once (Promise.all): prTasks holds  *)
(* where the pushBranch or pushTag of each module stands.  prOutcome is    *)
(* how the promise of pushRelease settled; a task that is under way when   *)
(* another one fails runs on.                                              *)

Remotes == <<"bitbucket", "origin">>

\* s.trim()
RECURSIVE Trim(_)
Trim(s) ==
    IF s = <<>> THEN s
    ELSE IF s[1] \in {" ", "\n"} THEN Trim(Tail(s))
    ELSE IF s[Len(s)] \in {" ", "\n"} THEN Trim(SubSeq(s, 1, Len(s) - 1))
    ELSE s

\* the remotes argument of pushRelease
normalizeRemotes(arg) ==
    IF arg.kind = "string" THEN [ok |-> TRUE, remotes |-> <<arg.value>>]
    ELSE IF arg.kind = "nil" THEN [ok |-> TRUE, remotes |-> Remotes]
    ELSE IF arg.kind # "array" THEN [ok |-> FALSE, remotes |-> <<>>]
    ELSE [ok |-> TRUE, remotes |-> arg.value]

\* the test of the package tag that accepts any tag starting with v
validTag_AnyV(tag) == ~(Len(tag) < 1 \/ IndexOf(tag, <<"v">>) # 0)

\* the test of the package tag in pushRelease
validTag(tag) ==
    ~(Len(tag) < 1 \/ IndexOf(tag, <<"v">>) # 0 \/ ~SemverValid(tag))

\* the modules pushRelease keeps, without the comparison of the tags
selectModules_AnyTag(modules, moduleTags, tag) ==
    SelectSeq([k \in 1..Len(modules) |->
                    [name |-> modules[k].name, type |-> modules[k].type,
                     commit |-> <<"c1">>,
                     keep |-> ~IsNil(moduleTags[modules[k].name])]],
              LAMBDA module : module.keep)

\* the modules pushRelease keeps: those whose exact tag is the package tag,
\* each with the commit of the tag
selectModules(modules, moduleTags, tag) ==
    SelectSeq([k \in 1..Len(modules) |->
                    [name |-> modules[k].name, type |-> modules[k].type,
                     commit |-> Trim(<<"c1", "\n">>),
                     keep |-> /\ ~IsNil(moduleTags[modules[k].name])
                              /\ Trim(ValueOf(moduleTags[modules[k].name])) = tag]],
              LAMBDA module : module.keep)

\* getPackages(browser): a module and the package of the extension itself
ExtensionName == "p"

PushModules ==
    <<[name |-> "m", type |-> "destination"],
      [name |-> ExtensionName, type |-> "package"]>>

ModuleNames == {PushModules[k].name : k \in 1..Len(PushModules)}

\* what git describe prints for the package: nothing, a tag without v, a
\* tag that is no version, a patch release, a pre-release
TagV101 == <<"v", "1", ".", "0", ".", "1">>

TagV110Beta == <<"v", "1", ".", "1", ".", "0", "-", "beta">>

PackageTags ==
    {Null, {<<"\n">>}, {<<"1", ".", "0", ".", "1", "\n">>}, {<<"v", "x", "\n">>},
     {TagV101 \o <<"\n">>}, {TagV110Beta \o <<"\n">>}}

\* what git describe prints for a module
ModuleTags == {Null, {TagV101 \o <<"\n">>}, {<<"v", "0", ".", "9", ".", "0", "\n">>}}

\* what git rev-parse remote/branch prints for a module, for all branches:
\* nothing is known, origin has the commit already, every remote has it
RemoteRefs ==
    {[x \in ModuleNames \X {"bitbucket", "origin"} |-> Null],
     [x \in ModuleNames \X {"bitbucket", "origin"} |->
        IF x[2] = "origin" THEN {<<"c1", "\n">>} ELSE {<<"c0", "\n">>}],
     [x \in ModuleNames \X {"bitbucket", "origin"} |-> {<<"c1", "\n">>}]}

RemotesArgs ==
    {[kind |-> "nil", value |-> "none"], [kind |-> "string", value |-> "origin"],
     [kind |-> "string", value |-> "bitbucket"], [kind |-> "other", value |-> "none"]}

PushInputs ==
    [dryRun : BOOLEAN, remotes : RemotesArgs, packageTag : PackageTags,
     moduleTags : [ModuleNames -> ModuleTags], refs : RemoteRefs]

\* Date.now() when a push to origin starts
PushTimes == {1}

EmptyLog ==
    [pushes |-> {}, queried |-> {}, builds |-> {}, branchDone |-> {}, failed |-> {},
     released |-> {}, pushed |-> {}, updated |-> FALSE]

\* the test of the state awaitBuild resolves with, letting all but 'failed' by
buildPassed_NotFailed(state) == state # "failed"

\* the test of the state awaitBuild resolves with, in pushBranch and pushTag
buildPassed(state) == state = "passed"

NewTask == [pc |-> "remote", k |-> 1, startedAt |-> Null]

NewTasks(modules) ==
    [name \in {modules[k].name : k \in 1..Len(modules)} |-> NewTask]

Selected(name) ==
    prModules[CHOOSE k \in 1..Len(prModules) : prModules[k].name = name]

SelectedNames == {prModules[k].name : k \in 1..Len(prModules)}

TargetBranches == getTargetBranches(prTag)

Rejects(outcome) == IF outcome = "pending" THEN "rejected" ELSE outcome

PushInit ==
    /\ prIn \in PushInputs
    /\ prStage = "start"
    /\ prOutcome = "pending"
    /\ prTag = <<>>
    /\ prRemotes = <<>>
    /\ prModules = <<>>
    /\ prBranch = 0
    /\ prTasks = <<>>
    /\ prLog = EmptyLog

pushFrame == <<pollVars, modVars, orchVars, baseVars>>

\* pushRelease up to the first push: the remotes, the tag of the package and
\* the modules that carry it
PushRelease ==
    /\ prStage = "start"
    /\ LET remotes == normalizeRemotes(prIn.remotes)
           tag == IF IsNil(prIn.packageTag) THEN <<>> ELSE Trim(ValueOf(prIn.packageTag))
       IN  IF ~remotes.ok \/ IsNil(prIn.packageTag) \/ ~validTag(tag)
           THEN /\ prStage' = "end"
                /\ prOutcome' = "rejected"
                /\ UNCHANGED <<prTag, prRemotes, prModules, prBranch, prTasks>>
           ELSE \E modules \in {selectModules(PushModules, prIn.moduleTags, tag)} :
                /\ prStage' = "branches"
                /\ prTag' = tag
                /\ prRemotes' = remotes.remotes
                /\ prModules' = modules
                /\ prBranch' = 1
                /\ prTasks' = NewTasks(modules)
                /\ UNCHANGED prOutcome
    /\ UNCHANGED <<prIn, prLog, pushFrame>>

\* the task of a module once its remotes are done, waiting for a build
\* whenever origin is a remote
AfterRemotes_OriginAwaits(stage, task, startedAt) ==
    IF task.k < Len(prRemotes)
    THEN [task EXCEPT !.k = task.k + 1, !.startedAt = startedAt]
    ELSE IF \A k \in 1..Len(prRemotes) : prRemotes[k] # "origin"
    THEN [task EXCEPT !.pc = "done", !.startedAt = startedAt]
    ELSE [task EXCEPT !.pc = "await", !.startedAt = startedAt]

\* the task of a module once its remotes are done: pushBranch waits for the
\* build when a push to origin was started, pushTag when origin is a remote
AfterRemotes(stage, task, startedAt) ==
    IF task.k < Len(prRemotes)
    THEN [task EXCEPT !.k = task.k + 1, !.startedAt = startedAt]
    ELSE IF \/ \A k \in 1..Len(prRemotes) : prRemotes[k] # "origin"
            \/ (stage = "branches" /\ IsNil(startedAt))
    THEN [task EXCEPT !.pc = "done", !.startedAt = startedAt]
    ELSE [task EXCEPT !.pc = "await", !.startedAt = startedAt]

\* pushBranch, the function run for one remote
PushBranchRemote(name) ==
    /\ prStage = "branches"
    /\ name \in DOMAIN prTasks
    /\ prTasks[name].pc = "remote"
    /\ LET task    == prTasks[name]
           remote  == prRemotes[task.k]
           current == prIn.refs[<<name, remote>>]
           already == ~IsNil(current) /\ Trim(ValueOf(current)) = Selected(name).commit
       IN  \E now \in PushTimes, ok \in BOOLEAN :
            LET startedAt == IF ~already /\ remote = "origin" THEN {now}
                             ELSE task.startedAt
                pushes == ~already /\ ~prIn.dryRun
                next == AfterRemotes("branches", task, startedAt)
            IN  /\ pushes \/ ok
                /\ prTasks' = [prTasks EXCEPT ![name] =
                                  IF ok THEN next ELSE [task EXCEPT !.pc = "failed"]]
                /\ prLog' = [prLog EXCEPT
                      !.pushes = IF pushes
                                 THEN @ \cup {[module |-> name, remote |-> remote,
                                               kind |-> "branch", branch |-> prBranch,
                                               ok |-> ok]}
                                 ELSE @,
                      !.failed = IF ok THEN @ ELSE @ \cup {name},
                      !.branchDone = IF ok /\ next.pc = "done"
                                     THEN @ \cup {<<name, prBranch>>} ELSE @]
                /\ prOutcome' = IF ok THEN prOutcome ELSE Rejects(prOutcome)
    /\ UNCHANGED <<prIn, prStage, prTag, prRemotes, prModules, prBranch, pushFrame>>

\* pushBranch, the wait for the build of the branch
PushBranchAwait(name) ==
    /\ prStage = "branches"
    /\ name \in DOMAIN prTasks
    /\ prTasks[name].pc = "await"
    /\ \E r \in AwaitOutcomes([dryRun |-> prIn.dryRun, sha |-> {Selected(name).commit},
                               createdAfter |-> prTasks[name].startedAt]) :
        LET ok == r.pc = "resolved" /\ buildPassed(r.value)
        IN  /\ prTasks' = [prTasks EXCEPT ![name].pc = IF ok THEN "done" ELSE "failed"]
            /\ prLog' = [prLog EXCEPT
                  !.queried = IF r.queries > 0 THEN @ \cup {<<name, "branch", prBranch>>}
                              ELSE @,
                  !.builds = IF r.pc = "resolved"
                             THEN @ \cup {[module |-> name, kind |-> "branch",
                                           branch |-> prBranch, state |-> r.value]}
                             ELSE @,
                  !.failed = IF ok THEN @ ELSE @ \cup {name},
                  !.branchDone = IF ok THEN @ \cup {<<name, prBranch>>} ELSE @]
            /\ prOutcome' = IF ok THEN prOutcome ELSE Rejects(prOutcome)
    /\ UNCHANGED <<prIn, prStage, prTag, prRemotes, prModules, prBranch, pushFrame>>

\* runSequential starts the next item when the items before it have all
\* resolved, and starts none after a rejection
runSequential(outcome) == outcome = "pending"

\* the next branch, or the tag, as soon as one module has its branch pushed
BranchPushed_AnyDone ==
    /\ prStage = "branches"
    /\ runSequential(prOutcome)
    /\ \E name \in DOMAIN prTasks : prTasks[name].pc = "done"
    /\ IF prBranch < Len(TargetBranches)
       THEN prBranch' = prBranch + 1 /\ UNCHANGED prStage
       ELSE prStage' = "tags" /\ UNCHANGED prBranch
    /\ prTasks' = NewTasks(prModules)
    /\ UNCHANGED <<prIn, prOutcome, prTag, prRemotes, prModules, prLog, pushFrame>>

\* the pushes of a branch have all resolved: the next branch, or the tag
BranchPushed ==
    /\ prStage = "branches"
    /\ runSequential(prOutcome)
    /\ \A name \in DOMAIN prTasks : prTasks[name].pc = "done"
    /\ IF prBranch < Len(TargetBranches)
       THEN prBranch' = prBranch + 1 /\ UNCHANGED prStage
       ELSE prStage' = "tags" /\ UNCHANGED prBranch
    /\ prTasks' = NewTasks(prModules)
    /\ UNCHANGED <<prIn, prOutcome, prTag, prRemotes, prModules, prLog, pushFrame>>

\* pushTag, the function run for one remote
PushTagRemote(name) ==
    /\ prStage = "tags"
    /\ name \in DOMAIN prTasks
    /\ prTasks[name].pc = "remote"
    /\ LET task   == prTasks[name]
           remote == prRemotes[task.k]
           next   == AfterRemotes("tags", task, task.startedAt)
       IN  \E ok \in BOOLEAN :
            /\ ~prIn.dryRun \/ ok
            /\ prTasks' = [prTasks EXCEPT ![name] =
                              IF ok THEN next ELSE [task EXCEPT !.pc = "failed"]]
            /\ prLog' = [prLog EXCEPT
                  !.pushes = IF ~prIn.dryRun
                             THEN @ \cup {[module |-> name, remote |-> remote,
                                           kind |-> "tag", branch |-> 0, ok |-> ok]}
                             ELSE @,
                  !.failed = IF ok THEN @ ELSE @ \cup {name},
                  !.pushed = IF ok /\ next.pc = "done" THEN @ \cup {name} ELSE @]
            /\ prOutcome' = IF ok THEN prOutcome ELSE Rejects(prOutcome)
    /\ UNCHANGED <<prIn, prStage, prTag, prRemotes, prModules, prBranch, pushFrame>>

\* pushTag, the wait for the build of the tag and the release of the module
PushTagAwait(name) ==
    /\ prStage = "tags"
    /\ name \in DOMAIN prTasks
    /\ prTasks[name].pc = "await"
    /\ \E r \in AwaitOutcomes([dryRun |-> prIn.dryRun, sha |-> {Selected(name).commit},
                               createdAfter |-> Null]),
          created \in BOOLEAN :
        LET passed == r.pc = "resolved" /\ buildPassed(r.value)
            releases == passed /\ Selected(name).type # "package"
            ok == passed /\ (releases => created)
        IN  /\ (releases /\ ~prIn.dryRun) \/ created
            /\ prTasks' = [prTasks EXCEPT ![name].pc = IF ok THEN "done" ELSE "failed"]
            /\ prLog' = [prLog EXCEPT
                  !.queried = IF r.queries > 0 THEN @ \cup {<<name, "tag", 0>>} ELSE @,
                  !.builds = IF r.pc = "resolved"
                             THEN @ \cup {[module |-> name, kind |-> "tag",
                                           branch |-> 0, state |-> r.value]}
                             ELSE @,
                  !.failed = IF ok THEN @ ELSE @ \cup {name},
                  !.released = IF releases THEN @ \cup {name} ELSE @,
                  !.pushed = IF ok THEN @ \cup {name} ELSE @]
            /\ prOutcome' = IF ok THEN prOutcome ELSE Rejects(prOutcome)
    /\ UNCHANGED <<prIn, prStage, prTag, prRemotes, prModules, prBranch, pushFrame>>

\* the tags have all been pushed: the release of the package is updated when
\* the package itself was pushed
TagsPushed ==
    /\ prStage = "tags"
    /\ prOutcome = "pending"
    /\ \A name \in DOMAIN prTasks : prTasks[name].pc = "done"
    /\ prStage' = "end"
    /\ \E updated \in BOOLEAN :
        /\ (ExtensionName \in prLog.pushed /\ ~prIn.dryRun) \/ updated
        /\ prLog' = [prLog EXCEPT !.updated = ExtensionName \in prLog.pushed]
        /\ prOutcome' = IF updated THEN "resolved" ELSE "rejected"
    /\ UNCHANGED <<prIn, prTag, prRemotes, prModules, prBranch, prTasks, pushFrame>>

PushNext ==
    \/ PushRelease
    \/ \E name \in ModuleNames : PushBranchRemote(name)
    \/ \E name \in ModuleNames : PushBranchAwait(name)
    \/ BranchPushed
    \/ \E name \in ModuleNames : PushTagRemote(name)
    \/ \E name \in ModuleNames : PushTagAwait(name)
    \/ TagsPushed

----------------------------------------------------------------------------
(* Module.resolve: the directory of a module, its package details, the     *)
(* status of its repository and the rest of its metadata, one step of the  *)
(* promise chain at a time                                                 *)

ModuleType ==
    [core         |-> [name |-> "core", directory |-> <<>>],
     tool         |-> [name |-> "tool", directory |-> <<"Tools", "/">>],
     packages     |-> [name |-> "package", directory |-> <<"Packages", "/">>],
     destinations |-> [name |-> "destination", directory |-> <<"Destinations", "/">>],
     sources      |-> [name |-> "source", directory |-> <<"Sources", "/">>]]

\* Path.resolve(path, segments) of an absolute path and a relative one
PathResolve(path, segments) == TrimSeparators(PathJoin(path, segments))

\* Filesystem.existsSync(path): one argument is looked at, whatever is passed
existsSync(disk, path) == path \in disk

ExtensionJson == <<"extension", ".", "json">>

\* the three directories getModulePath looks at
TypeDirectory(basePath, name, type) == PathResolve(basePath, type.directory \o name)

Installed(basePath, name) == PathResolve(PathJoin(basePath, NodeModules), name)

getModulePath(disk, basePath, name, type) ==
    IF existsSync(disk, TypeDirectory(basePath, name, type))
    THEN [ok |-> TRUE, path |-> TypeDirectory(basePath, name, type)]
    ELSE IF type.name = "package" /\ existsSync(disk, basePath)
    THEN [ok |-> TRUE, path |-> PathResolve(basePath, <<>>)]
    ELSE IF existsSync(disk, Installed(basePath, name))
    THEN [ok |-> TRUE, path |-> Installed(basePath, name)]
    ELSE [ok |-> FALSE, path |-> <<>>]

\* name.substring(name.lastIndexOf('-') + 1)
moduleKey(name) == SubstringFrom(name, LastIndexOf(name, <<"-">>) + 1)

\* the status of a repository: its commit, and whether files are changed;
\* a field is Null when the object has no such key or holds null
StatusOf(commit, dirty) == [commit |-> commit, dirty |-> dirty]

\* the status resolve takes when Git.status rejects
DefaultStatus == StatusOf(Null, {FALSE})

\* Git.status(path) of a directory: without .git an empty object; otherwise
\* each git command that fails leaves its own default, and an exception in
\* a handler rejects
GitStatus(repo) ==
    IF ~repo.git THEN [err |-> FALSE, status |-> StatusOf(Null, Null)]
    ELSE IF repo.throws THEN [err |-> TRUE, status |-> StatusOf(Null, Null)]
    ELSE [err |-> FALSE,
          status |-> StatusOf(repo.head,
                              IF IsNil(repo.files) THEN {FALSE}
                              ELSE {ValueOf(repo.files) > 0})]

\* a status of neither a commit nor changed files, objects without the dirty
\* key let through
invalidStatus_DefinedOnly(repository) ==
    IsNil(repository.commit) /\ repository.dirty = {FALSE}

\* IsNil(repository.commit) && !repository.dirty
invalidStatus(repository) ==
    IsNil(repository.commit) /\ (IsNil(repository.dirty) \/ ~ValueOf(repository.dirty))

\* the directory the modules are resolved in, which is extension.path too
ModBase == WorkPath

ExtensionPath == ModBase

\* the status the module takes, and where it comes from
repositoryStatus(in, module) ==
    IF module.type = "package"
    THEN [source |-> "extension", warned |-> FALSE, path |-> <<>>,
          status |-> in.extension]
    ELSE IF ~IsNil(in.build) /\ ~IsNil(ValueOf(in.build))
    THEN [source |-> "build", warned |-> FALSE, path |-> <<>>,
          status |-> ValueOf(ValueOf(in.build))]
    ELSE LET modules == PathJoin(PathJoin(ExtensionPath, <<".", "modules">>), in.name)
             path == IF existsSync(in.disk, modules) THEN modules ELSE module.path
             git == GitStatus(in.repo)
         IN  [source |-> IF git.err THEN "default" ELSE "git",
              warned |-> ~IsNil(in.build),
              path |-> path,
              status |-> IF git.err THEN DefaultStatus ELSE git.status]

ModTypes == {"core", "packages", "sources", "plugins"}

\* a name with a key, a name that ends with the separator, a name without one
ModNames ==
    {<<"neon", "-", "extension", "-", "core">>, <<"neon", "-", "extension", "-">>,
     <<"build">>}

\* the paths a resolution may look at
ModPaths(type, name) ==
    {PathJoin(ModBase, ExtensionJson), Installed(ModBase, name),
     PathJoin(PathJoin(ExtensionPath, <<".", "modules">>), name)}
        \cup (IF type \in DOMAIN ModuleType
              THEN {TypeDirectory(ModBase, name, ModuleType[type])} ELSE {})

\* what is on disk: nothing, or the base directory and some of the paths
ModDisks(type, name) ==
    {{}} \cup {{ModBase} \cup paths : paths \in SUBSET ModPaths(type, name)}

ModStatuses == {StatusOf({<<"c1">>}, {FALSE}), StatusOf(Null, {TRUE}), StatusOf(Null, {FALSE})}

\* extension.build[name]: no entry, an entry without a status, an entry with one
ModBuilds ==
    {Null, {Null}, {{StatusOf({<<"c1">>}, {FALSE})}}, {{StatusOf(Null, {FALSE})}}}

\* the directory Git.status is asked about
ModRepos ==
    {[git |-> FALSE, throws |-> FALSE, head |-> Null, files |-> Null],
     [git |-> TRUE, throws |-> TRUE, head |-> Null, files |-> Null]}
        \cup [git : {TRUE}, throws : {FALSE}, head : {Null, {<<"c1">>}},
              files : {Null, {0}, {1}}]

NewModule ==
    [pc |-> "start", error |-> "none", key |-> <<>>, type |-> "none", path |-> <<>>,
     source |-> "none", warned |-> FALSE, statusPath |-> <<>>,
     repository |-> StatusOf(Null, Null), commit |-> Null]

ModInit ==
    /\ \E type \in ModTypes, name \in ModNames :
        modIn \in [type : {type}, name : {name}, disk : ModDisks(type, name),
                   extension : ModStatuses, build : ModBuilds, repo : ModRepos]
    /\ modOut = NewModule

modFrame == <<pollVars, pushVars, orchVars, baseVars>>

\* resolve up to the promise chain: the type, the key and the directory
Resolve ==
    /\ modOut.pc = "start"
    /\ modOut' =
        IF modIn.type \notin DOMAIN ModuleType
        THEN [modOut EXCEPT !.pc = "rejected", !.error = "type"]
        ELSE IF Len(moduleKey(modIn.name)) < 1
        THEN [modOut EXCEPT !.pc = "rejected", !.error = "name"]
        ELSE LET found == getModulePath(modIn.disk, ModBase, modIn.name,
                                        ModuleType[modIn.type])
             IN  IF ~found.ok
                 THEN [modOut EXCEPT !.pc = "thrown", !.error = "notfound"]
                 ELSE [modOut EXCEPT !.pc = "details",
                                     !.key = moduleKey(modIn.name),
                                     !.type = ModuleType[modIn.type].name,
                                     !.path = found.path]
    /\ UNCHANGED <<modIn, modFrame>>

\* readPackageDetails resolves or rejects
ReadPackageDetails ==
    /\ modOut.pc = "details"
    /\ \E ok \in BOOLEAN :
        modOut' = IF ok THEN [modOut EXCEPT !.pc = "status"]
                  ELSE [modOut EXCEPT !.pc = "rejected", !.error = "details"]
    /\ UNCHANGED <<modIn, modFrame>>

\* the status of the repository is taken from the extension, from the build
\* manifest or from Git.status
ResolveRepository ==
    /\ modOut.pc = "status"
    /\ LET r == repositoryStatus(modIn, modOut)
       IN  modOut' = [modOut EXCEPT !.pc = "check", !.source = r.source,
                                    !.warned = r.warned, !.statusPath = r.path,
                                    !.repository = r.status]
    /\ UNCHANGED <<modIn, modFrame>>

\* the status is refused when it has no commit and is not dirty
CheckRepository ==
    /\ modOut.pc = "check"
    /\ modOut' =
        IF invalidStatus(modOut.repository)
        THEN [modOut EXCEPT !.pc = "rejected", !.error = "status"]
        ELSE [modOut EXCEPT !.pc = "metadata", !.commit = modOut.repository.commit]
    /\ UNCHANGED <<modIn, modFrame>>

\* contributors, manifest, version and overlay resolve or reject
ResolveMetadata ==
    /\ modOut.pc = "metadata"
    /\ \E ok \in BOOLEAN :
        modOut' = IF ok THEN [modOut EXCEPT !.pc = "resolved"]
                  ELSE [modOut EXCEPT !.pc = "rejected", !.error = "metadata"]
    /\ UNCHANGED <<modIn, modFrame>>

ModNext ==
    \/ Resolve
    \/ ReadPackageDetails
    \/ ResolveRepository
    \/ CheckRepository
    \/ ResolveMetadata

----------------------------------------------------------------------------
(* Module.resolveMany: the module graph of an extension, and the order     *)
(* orderModules gives to a list of module names                            *)

\* 'neon-extension-'
NeonPrefix == <<"neon", "-", "extension", "-">>

\* the name of the build tool in resolveMany
ToolItem == [type |-> "tool", name |-> NeonPrefix \o <<"build">>]

Item(type, key) == [type |-> type, name |-> NeonPrefix \o <<key>>]

\* the "modules" of the extension manifest: for each type, in the order of
\* declaration, the names of its modules
ManifestGroups ==
    {[type |-> "core", names |-> names] :
        names \in {<<"framework", "core">>, <<"core", "framework">>, <<"framework">>, <<"core">>}}
    \cup {[type |-> "destinations", names |-> <<"d">>],
          [type |-> "sources", names |-> <<"s">>]}

ExtensionModules ==
    {<<>>}
    \cup {<<g>> : g \in ManifestGroups}
    \cup {<<g, h>> : <<g, h>> \in {gh \in ManifestGroups \X ManifestGroups : gh[1].type # gh[2].type}}
    \cup {<<g, h, i>> : <<g, h, i>> \in
            {ghi \in ManifestGroups \X ManifestGroups \X ManifestGroups :
                /\ ghi[1].type # ghi[2].type
                /\ ghi[1].type # ghi[3].type
                /\ ghi[2].type # ghi[3].type}}

\* Reduce(extension.modules, ..., [{type: 'tool', name: 'neon-extension-build'}])
RECURSIVE ReduceModules(_, _)
ReduceModules(modules, groups) ==
    IF groups = <<>> THEN modules
    ELSE LET group == Head(groups)
         IN  ReduceModules(modules \o [k \in 1..Len(group.names) |-> Item(group.type, group.names[k])],
                           Tail(groups))

\* the name in the package.json of a module, which resolve takes for the
\* name of the module
PackageNameOf(name) == InternalScope \o moduleKey(name)

\* the order the names come first in
RECURSIVE FirstKeys(_, _)
FirstKeys(modules, seen) ==
    IF modules = <<>> THEN <<>>
    ELSE IF Head(modules).name \in seen THEN FirstKeys(Tail(modules), seen)
    ELSE <<Head(modules).name>> \o FirstKeys(Tail(modules), seen \cup {Head(modules).name})

\* the graph in the order orderModules gives
KeyBy_Prioritised(modules) ==
    LET names == [k \in 1..Len(modules) |-> modules[k].name]
        first == SelectSeq(<<BuildName, FrameworkName, CoreName>>,
                           LAMBDA name : \E k \in 1..Len(names) : names[k] = name)
        keys == first \o SelectSeq(FirstKeys(modules, {}),
                                   LAMBDA name : \A k \in 1..Len(first) : first[k] # name)
    IN  [k \in 1..Len(keys) |->
            LET last == CHOOSE j \in 1..Len(modules) :
                            /\ modules[j].name = keys[k]
                            /\ \A i \in (j + 1)..Len(modules) : modules[i].name # keys[k]
            IN  modules[last]]

\* KeyBy(modules, 'name'): a key stands where its name came first and holds
\* the module that came last under the name
KeyBy(modules) ==
    LET keys == FirstKeys(modules, {})
    IN  [k \in 1..Len(keys) |->
            LET last == CHOOSE j \in 1..Len(modules) :
                            /\ modules[j].name = keys[k]
                            /\ \A i \in (j + 1)..Len(modules) : modules[i].name # keys[k]
            IN  modules[last]]

\* orderModules(modules): build, framework and core where the list has them,
\* then the other names in the order of the list
orderModules(modules) ==
    LET result == SelectSeq(<<BuildName, FrameworkName, CoreName>>,
                            LAMBDA name : \E k \in 1..Len(modules) : modules[k] = name)
    IN  result \o SelectSeq(modules, LAMBDA name : \A k \in 1..Len(result) : result[k] # name)

GraphInit ==
    /\ grIn \in {[manifest |-> manifest, fails |-> fails] :
                    manifest \in ExtensionModules, fails \in 0..5}
    /\ grOut = [pc |-> "resolving", resolved |-> <<>>, graph |-> <<>>]

graphFrame ==
    <<pollVars, pushVars, modVars, installVars, fanVars, reasonVars, baseVars>>

GraphItems == ReduceModules(<<ToolItem>>, grIn.manifest)

\* resolve(browser, extension, path, type, name) for the next module, when
\* the modules before it have resolved
GraphResolve ==
    /\ grOut.pc = "resolving"
    /\ Len(grOut.resolved) < Len(GraphItems)
    /\ LET k == Len(grOut.resolved) + 1
           item == GraphItems[k]
       IN  IF grIn.fails = k
           THEN grOut' = [grOut EXCEPT !.pc = "failed"]
           ELSE grOut' = [grOut EXCEPT !.resolved =
                            Append(@, [type |-> item.type, name |-> PackageNameOf(item.name)])]
    /\ UNCHANGED <<grIn, graphFrame>>

\* .then((modules) => KeyBy(modules, 'name'))
GraphKeyed ==
    /\ grOut.pc = "resolving"
    /\ Len(grOut.resolved) = Len(GraphItems)
    /\ grOut' = [grOut EXCEPT !.pc = "done", !.graph = KeyBy(grOut.resolved)]
    /\ UNCHANGED <<grIn, graphFrame>>

GraphNext ==
    \/ GraphResolve
    \/ GraphKeyed

----------------------------------------------------------------------------
(* travis:install: install(target, branch, options) step by step, and the  *)
(* registration at build time of the links it has created                  *)

\* the package.json of the target
InstallPackages ==
    {[name |-> name, dependencies |-> dependencies] :
        name \in {PackageChrome, ModuleMName, <<"x">>},
        dependencies \in {<<>>, <<FrameworkName>>, <<CoreName, <<"jquery">>, FrameworkName>>}}

\* whether a package is the package of a browser
isBrowser(name) == name = PackageChrome

\* getPackageModules(pkg): the dependencies in the scope of the modules, in
\* the order of orderModules; it throws for a package outside the scope
getPackageModules(pkg) ==
    IF ~StartsWith(pkg.name, InternalScope)
    THEN [ok |-> FALSE, modules |-> <<>>]
    ELSE [ok |-> TRUE,
          modules |-> orderModules(SelectSeq(pkg.dependencies,
                                             LAMBDA name : StartsWith(name, InternalScope)))]

\* module.replace('@radon-extension/', 'radon-extension-')
repositoryOf(module) ==
    IF IndexOf(module, InternalScope) < 0 THEN module
    ELSE SubstringTo(module, IndexOf(module, InternalScope))
            \o RepositoryPrefix
            \o SubstringFrom(module, IndexOf(module, InternalScope) + Len(InternalScope))

\* Path.join(target, '.modules')
modulesPath(target) == PathJoin(target, <<".modules">>)

\* Path.join(modulesPath, name)
localPath(target, module) == PathJoin(modulesPath(target), repositoryOf(module))

\* `${target}/node_modules/${module}`
linkPath(target, module) == target \o <<"/">> \o NodeModules \o <<"/">> \o module

Event(step, k, ok) == [step |-> step, k |-> k, ok |-> ok]

InstallInit ==
    /\ instIn \in {[pkg |-> pkg, readable |-> readable, reuse |-> reuse, cache |-> cache] :
                        pkg \in InstallPackages, readable \in BOOLEAN,
                        reuse \in BOOLEAN, cache \in BOOLEAN}
    /\ inst = [pc |-> "start", k |-> 0, log |-> <<>>, disk |-> {},
               created |-> <<>>, registered |-> 0]
    /\ links = [key \in LinkKeys |-> <<>>]
    /\ linkOp = NoLinkOp

installFrame ==
    <<pollVars, pushVars, modVars, graphVars, fanVars, reasonVars,
      refVars, pkgVars, lockVars, cloneVars, validatorVars>>

InstallModules == getPackageModules(instIn.pkg).modules

InstallBrowser == isBrowser(instIn.pkg.name)

\* the step after the chain of module k: the chain of the next module, or
\* the step that follows the modules
AfterChain(k) ==
    IF k < Len(InstallModules) THEN [pc |-> "clone", k |-> k + 1]
    ELSE IF InstallBrowser THEN [pc |-> "writePackage", k |-> 0]
    ELSE IF Len(InstallModules) > 0 THEN [pc |-> "linkDependencies", k |-> 1]
    ELSE [pc |-> "cleanLocks", k |-> 0]

\* the chains of the modules start with the first module, when there is one
FirstChain == AfterChain(0)

\* a step is done: it is logged, and the next step is set, or none when the
\* step has failed
Stepped(step, ok, next) ==
    [inst EXCEPT !.log = Append(@, Event(step, inst.k, ok)),
                 !.pc = IF ok THEN next.pc ELSE "failed",
                 !.k = IF ok THEN next.k ELSE @]

\* install that leaves the modules directory as it finds it
InstallStart_KeepsCache ==
    /\ inst.pc = "start"
    /\ LET disk == IF instIn.cache THEN {repositoryOf(FrameworkName)} ELSE {}
           ok == instIn.readable /\ getPackageModules(instIn.pkg).ok
           next == IF InstallBrowser THEN FirstChain ELSE [pc |-> "package", k |-> 0]
       IN  inst' = [inst EXCEPT !.log = <<Event("readPackage", 0, ok)>>,
                                !.disk = disk,
                                !.pc = IF ok THEN next.pc ELSE "failed",
                                !.k = IF ok THEN next.k ELSE 0]
    /\ UNCHANGED <<instIn, linkVars, installFrame>>

\* install: the modules directory is removed unless it is reused, made
\* again, and package.json is read
InstallStart ==
    /\ inst.pc = "start"
    /\ LET removes == ~instIn.reuse /\ instIn.cache
           log == IF removes THEN <<Event("removeCache", 0, TRUE)>> ELSE <<>>
           disk == IF instIn.cache /\ ~removes THEN {repositoryOf(FrameworkName)} ELSE {}
           ok == instIn.readable /\ getPackageModules(instIn.pkg).ok
           next == IF InstallBrowser THEN FirstChain ELSE [pc |-> "package", k |-> 0]
       IN  inst' = [inst EXCEPT !.log = log \o <<Event("readPackage", 0, ok)>>,
                                !.disk = disk,
                                !.pc = IF ok THEN next.pc ELSE "failed",
                                !.k = IF ok THEN next.k ELSE 0]
    /\ UNCHANGED <<instIn, linkVars, installFrame>>

\* a clone whose failure does not hold back the install of the dependencies
InstallClone_Unawaited ==
    /\ inst.pc = "clone"
    /\ \E ok \in BOOLEAN :
        inst' = [Stepped("clone", ok, [pc |-> "install", k |-> inst.k])
                    EXCEPT !.pc = "install"]
    /\ UNCHANGED <<instIn, linkVars, installFrame>>

\* clone(target, branch, repository): a repository that is in the modules
\* directory is taken as it is
InstallClone ==
    /\ inst.pc = "clone"
    /\ LET repository == repositoryOf(InstallModules[inst.k])
       IN  \E ok \in BOOLEAN :
            /\ repository \in inst.disk => ok
            /\ inst' = [Stepped("clone", ok, [pc |-> "install", k |-> inst.k])
                            EXCEPT !.disk = IF ok THEN @ \cup {repository} ELSE @]
    /\ UNCHANGED <<instIn, linkVars, installFrame>>

\* Npm.install(localPath)
InstallDependencies ==
    /\ inst.pc = "install"
    /\ \E ok \in BOOLEAN :
        inst' = Stepped("install", ok,
                        [pc |-> IF InstallBrowser THEN "clean" ELSE "link", k |-> inst.k])
    /\ UNCHANGED <<instIn, linkVars, installFrame>>

\* Git.clean(localPath): a rejection is logged and passed over, a status
\* that is nil ends the pack
InstallClean ==
    /\ inst.pc = "clean"
    /\ \E status \in {"clean", "dirty", "rejected", "nil"} :
        inst' = Stepped("clean", status # "nil", [pc |-> "pack", k |-> inst.k])
    /\ UNCHANGED <<instIn, linkVars, installFrame>>

\* Npm.pack(target, localPath), and the name of the file it reports
InstallPack ==
    /\ inst.pc = "pack"
    /\ \E packed \in BOOLEAN, file \in {RepositoryPrefix \o <<"framework">>, <<"npm", "-", "debug">>} :
        inst' = Stepped("pack", packed /\ StartsWith(file, RepositoryPrefix), AfterChain(inst.k))
    /\ UNCHANGED <<instIn, linkVars, installFrame>>

\* a link that is written to the registry when it is made
InstallLink_Registers ==
    /\ inst.pc = "link"
    /\ \E ok \in BOOLEAN :
        LET module == InstallModules[inst.k]
            link == [source |-> linkPath(WorkPath, module), target |-> localPath(WorkPath, module)]
        IN  /\ inst' = [Stepped("link", ok, AfterChain(inst.k))
                            EXCEPT !.created = IF ok THEN Append(@, link) ELSE @]
            /\ links' = IF ok
                        THEN [links EXCEPT ![LinkKey(Chrome, Production)] =
                                SetLink(@, link.target, link.source)]
                        ELSE links
    /\ UNCHANGED <<instIn, linkOp, installFrame>>

\* Link.create(linkPath, localPath, prefixes) makes the link on disk
InstallLink ==
    /\ inst.pc = "link"
    /\ \E ok \in BOOLEAN :
        LET module == InstallModules[inst.k]
            link == [source |-> linkPath(WorkPath, module), target |-> localPath(WorkPath, module)]
        IN  inst' = [Stepped("link", ok, AfterChain(inst.k))
                        EXCEPT !.created = IF ok THEN Append(@, link) ELSE @]
    /\ UNCHANGED <<instIn, linkVars, installFrame>>

\* writePackage(target, versions)
InstallWritePackage ==
    /\ inst.pc = "writePackage"
    /\ \E ok \in BOOLEAN :
        inst' = Stepped("writePackage", ok, [pc |-> "writeLocks", k |-> 0])
    /\ UNCHANGED <<instIn, linkVars, installFrame>>

\* writePackageLocks(target, versions)
InstallWritePackageLocks ==
    /\ inst.pc = "writeLocks"
    /\ \E ok \in BOOLEAN :
        inst' = Stepped("writeLocks", ok,
                        IF Len(InstallModules) > 0 THEN [pc |-> "linkDependencies", k |-> 1]
                        ELSE [pc |-> "package", k |-> 0])
    /\ UNCHANGED <<instIn, linkVars, installFrame>>

\* linkModuleDependencies at the next module: its clone has to be in the
\* modules directory
InstallLinkModuleDependencies ==
    /\ inst.pc = "linkDependencies"
    /\ \E ok \in BOOLEAN :
        /\ repositoryOf(InstallModules[inst.k]) \notin inst.disk => ~ok
        /\ inst' = Stepped("linkDependencies", ok,
                           IF inst.k < Len(InstallModules)
                           THEN [pc |-> "linkDependencies", k |-> inst.k + 1]
                           ELSE IF InstallBrowser THEN [pc |-> "package", k |-> 0]
                           ELSE [pc |-> "cleanLocks", k |-> 0])
    /\ UNCHANGED <<instIn, linkVars, installFrame>>

\* Npm.install(target)
InstallPackage ==
    /\ inst.pc = "package"
    /\ \E ok \in BOOLEAN :
        inst' = Stepped("package", ok,
                        IF InstallBrowser THEN [pc |-> "cleanLocks", k |-> 0] ELSE FirstChain)
    /\ UNCHANGED <<instIn, linkVars, installFrame>>

\* writePackageLocks(target), which cleans package-lock.json
InstallCleanLocks ==
    /\ inst.pc = "cleanLocks"
    /\ \E ok \in BOOLEAN :
        inst' = Stepped("cleanLocks", ok, [pc |-> "done", k |-> 0])
    /\ UNCHANGED <<instIn, linkVars, installFrame>>

\* build:extension after the install: registerLinks finds the next link in
\* node_modules of the package and registers it
BuildRegisterLinks ==
    /\ inst.pc = "done"
    /\ inst.registered < Len(inst.created)
    /\ LET link == inst.created[inst.registered + 1]
           r == registerLink(links[LinkKey(Chrome, Production)], Chrome, link.source, link.target)
       IN  /\ links' = [links EXCEPT ![LinkKey(Chrome, Production)] = r.registry]
           /\ linkOp' = [NoLinkOp EXCEPT !.kind = "register",
                                          !.key = LinkKey(Chrome, Production),
                                          !.source = link.source, !.target = link.target,
                                          !.out = r.out]
    /\ inst' = [inst EXCEPT !.registered = @ + 1]
    /\ UNCHANGED <<instIn, installFrame>>

\* resolveLink for a file of a module that was linked
BuildResolveLink ==
    /\ inst.pc = "done"
    /\ inst.registered = Len(inst.created)
    /\ \E k \in 1..Len(inst.created) :
        LET path == {PathJoin(inst.created[k].target, LibY)}
        IN  linkOp' = [NoLinkOp EXCEPT !.kind = "resolve",
                                        !.key = LinkKey(Chrome, Production),
                                        !.path = path,
                                        !.result = resolveLink(links[LinkKey(Chrome, Production)], path)]
    /\ UNCHANGED <<instIn, inst, links, installFrame>>

InstallNext ==
    \/ InstallStart
    \/ InstallClone
    \/ InstallDependencies
    \/ InstallClean
    \/ InstallPack
    \/ InstallLink
    \/ InstallWritePackage
    \/ InstallWritePackageLocks
    \/ InstallLinkModuleDependencies
    \/ InstallPackage
    \/ InstallCleanLocks
    \/ BuildRegisterLinks
    \/ BuildResolveLink

----------------------------------------------------------------------------
(* build:extension, the registration of the links: registerLinks runs for  *)
(* all modules at once, each going through the entries of its node_modules *)
(* directory in order, and the compiler runs when all of them are done     *)

FanModules == {"p", "m", "n"}

Entry(source, target, symlink) == [source |-> source, target |-> target, symlink |-> symlink]

\* the entries of the node_modules directory of each module, as readdir
\* lists them
FanEntries ==
    [p : {<<>>,
          <<Entry(LinkX, ModulesX, TRUE)>>,
          <<Entry(LinkFramework, ModulesDir, TRUE), Entry(JQueryPath, JQueryPath, FALSE),
            Entry(LinkX, ModulesX, TRUE)>>},
     m : {<<>>, <<Entry(NestedLinkX, ModulesX, TRUE)>>,
          <<Entry(NestedLinkX, ModulesDir, TRUE)>>},
     n : {<<>>, <<Entry(NestedLinkXN, ModulesX, TRUE)>>}]

FanKey == LinkKey(Chrome, Production)

FanInit ==
    /\ fanIn \in FanEntries
    /\ fanPending = fanIn
    /\ fanPhase = "links"
    /\ links = [key \in LinkKeys |-> <<>>]
    /\ linkOp = NoLinkOp

fanFrame ==
    <<pollVars, pushVars, modVars, graphVars, installVars, reasonVars,
      refVars, pkgVars, lockVars, cloneVars, validatorVars>>

\* registerLinks at the next entry of the directory of a module: a symbolic
\* link is registered, any other entry is passed over
FanRegister(module) ==
    /\ fanPhase = "links"
    /\ fanPending[module] # <<>>
    /\ LET entry == Head(fanPending[module])
       IN  IF entry.symlink
           THEN \E r \in {registerLink(links[FanKey], Chrome, entry.source, entry.target)} :
                    /\ links' = [links EXCEPT ![FanKey] = r.registry]
                    /\ linkOp' = [NoLinkOp EXCEPT !.kind = "register", !.key = FanKey,
                                                   !.source = entry.source,
                                                   !.target = entry.target,
                                                   !.out = r.out]
           ELSE UNCHANGED <<links, linkOp>>
    /\ fanPending' = [fanPending EXCEPT ![module] = Tail(@)]
    /\ UNCHANGED <<fanIn, fanPhase, fanFrame>>

\* runCompiler(compiler), when the registerLinks of all modules have resolved
FanCompile ==
    /\ fanPhase = "links"
    /\ \A module \in FanModules : fanPending[module] = <<>>
    /\ fanPhase' = "compile"
    /\ UNCHANGED <<fanIn, fanPending, linkVars, fanFrame>>

\* resolveLink, which the validator calls for the modules the compiler reports
FanResolve(path) ==
    /\ fanPhase = "compile"
    /\ linkOp' = [NoLinkOp EXCEPT !.kind = "resolve", !.key = FanKey, !.path = path,
                                   !.result = resolveLink(links[FanKey], path)]
    /\ UNCHANGED <<fanIn, fanPending, fanPhase, links, fanFrame>>

FanNext ==
    \/ \E module \in FanModules : FanRegister(module)
    \/ FanCompile
    \/ \E path \in ResolvedPaths : FanResolve(path)

----------------------------------------------------------------------------
(* Validator.resolveReasons call by call: the stack of the calls under way, *)
(* each at the k-th reason of its module, over a graph of compiled modules  *)

\* compiled modules: a is a source of the tracked module m, n has no
\* userRequest, t, u and v are files outside every tracked module
ReasonNodes == {"t", "u", "v"}

ReasonRequestOf ==
    [a |-> {SourceA}, n |-> Null, t |-> {PathJoin(ModulesX, LibZ)},
     u |-> {PathJoin(ModulesX, LibY)}, v |-> {JQueryIndex}]

\* the reasons of a module, "nil" for a reason without module
ReasonLists ==
    {<<>>, <<"a">>, <<"u">>, <<"v">>, <<"u", "a">>, <<"nil", "v">>, <<"n", "a">>}

ReasonGraphs ==
    {[m \in DOMAIN ReasonRequestOf |->
        IF m = "a" THEN <<>> ELSE IF m = "n" THEN <<"a">> ELSE reasons[m]] :
            reasons \in [ReasonNodes -> ReasonLists]}

ReasonModules == ModulesWith(Declarations(NoDeclarations, NoDeclarations, NoDeclarations))

\* the source of a reason, and whether a tracked module holds it
ReasonSource(reason) == ValueOf(resolveLink(<<>>, ReasonRequestOf[reason]))

Tracked(reason) == resolveModule(ReasonModules, ReasonSource(reason), FALSE) # 0

ReasonsInit ==
    /\ rsIn \in ReasonGraphs
    /\ rsStack = <<[module |-> "t", k |-> 1]>>
    /\ rsOut = [pc |-> "running", reasons |-> <<>>]

reasonsFrame == <<pollVars, pushVars, modVars, graphVars, installVars, fanVars, baseVars>>

\* the call on top of the stack and the reason it is at
TopCall == rsStack[Len(rsStack)]

TopReason == rsIn[TopCall.module][TopCall.k]

AtReason ==
    /\ rsOut.pc = "running"
    /\ rsStack # <<>>
    /\ TopCall.k <= Len(rsIn[TopCall.module])

\* IsNil(reason.module) || IsNil(reason.module.userRequest)
NoRequest(reason) ==
    IF reason = "nil" THEN TRUE ELSE IsNil(ReasonRequestOf[reason])

Advance(stack) == [stack EXCEPT ![Len(stack)].k = @ + 1]

\* a reason without module, or whose module has no userRequest, is passed over
ReasonSkipped ==
    /\ AtReason
    /\ NoRequest(TopReason)
    /\ rsStack' = Advance(rsStack)
    /\ UNCHANGED <<rsIn, rsOut, reasonsFrame>>

\* a reason in a tracked module is pushed on the reasons of the call
ReasonFound ==
    /\ AtReason
    /\ ~NoRequest(TopReason)
    /\ Tracked(TopReason)
    /\ rsStack' = Advance(rsStack)
    /\ rsOut' = [rsOut EXCEPT !.reasons =
                    Append(@, [module |-> TopCall.module,
                               source |-> ReasonSource(TopReason)])]
    /\ UNCHANGED <<rsIn, reasonsFrame>>

\* the reasons of any other reason are resolved by a call of their own,
\* which fails with RangeError when the stack is full
ReasonDescend ==
    /\ AtReason
    /\ ~NoRequest(TopReason)
    /\ ~Tracked(TopReason)
    /\ IF Len(rsStack) >= MaxStack
       THEN rsOut' = [rsOut EXCEPT !.pc = "overflow"] /\ UNCHANGED rsStack
       ELSE /\ rsStack' = Append(Advance(rsStack), [module |-> TopReason, k |-> 1])
            /\ UNCHANGED rsOut
    /\ UNCHANGED <<rsIn, reasonsFrame>>

\* a call that has gone through its reasons returns
ReasonsReturn ==
    /\ rsOut.pc = "running"
    /\ rsStack # <<>>
    /\ TopCall.k > Len(rsIn[TopCall.module])
    /\ rsStack' = SubSeq(rsStack, 1, Len(rsStack) - 1)
    /\ rsOut' = IF Len(rsStack) = 1 THEN [rsOut EXCEPT !.pc = "returned"] ELSE rsOut
    /\ UNCHANGED <<rsIn, reasonsFrame>>

ReasonsNext ==
    \/ ReasonSkipped
    \/ ReasonFound
    \/ ReasonDescend
    \/ ReasonsReturn

----------------------------------------------------------------------------
(* Claims about pushRelease *)

TagPushes == {push \in prLog.pushes : push.kind = "tag"}

BranchPushes == {push \in prLog.pushes : push.kind = "branch"}

\* every target branch of every selected module has been pushed and built
AllBranchesDone ==
    \A name \in SelectedNames, b \in 1..Len(TargetBranches) :
        <<name, b>> \in prLog.branchDone

\* a push or a build of a branch has failed
BranchFailed == prStage = "branches" /\ prOutcome = "rejected"

\* C21: a tag is pushed only after the push and the build of every target
\* branch have succeeded for every selected module; once a branch push or
\* build has failed, no tag is pushed for any module and the release of the
\* package is not updated, then or later
C21_TagAfterBranches ==
    /\ [](\/ prStage = "tags"
          \/ TagPushes # {}
          \/ prLog.pushed # {}
          \/ prLog.released # {}
          \/ prLog.updated
          => AllBranchesDone)
    /\ [](BranchFailed => TagPushes = {} /\ prLog.released = {} /\ ~prLog.updated)
    /\ [][BranchFailed => BranchFailed']_vars

\* both modules went through two branches, their tags are pushed and the
\* release of the package is updated
C21_Witness ==
    /\ prStage = "end"
    /\ prOutcome = "resolved"
    /\ Len(prModules) = 2
    /\ Len(TargetBranches) = 2
    /\ \E push \in TagPushes : push.module = "m" /\ push.ok
    /\ \E push \in BranchPushes : push.module = "m" /\ push.ok
    /\ prLog.updated

\* C22: a dry run of a release with a valid tag performs no push and no
\* query of the status or the build of a commit, and completes successfully
C22_DryRun ==
    prIn.dryRun /\ prStage # "start" /\ prTag # <<>>
        => /\ prLog.pushes = {}
           /\ prLog.queried = {}
           /\ prLog.failed = {}
           /\ prOutcome # "rejected"

\* what a dry run does keep of the claim: nothing is pushed and nothing asked
C22_DryRunSilent ==
    prIn.dryRun => prLog.pushes = {} /\ prLog.queried = {}

\* the exact tag of a module, when it has one
TagOf(name) ==
    IF IsNil(prIn.moduleTags[name]) THEN Null ELSE {Trim(ValueOf(prIn.moduleTags[name]))}

PackageTag == IF IsNil(prIn.packageTag) THEN Null ELSE {Trim(ValueOf(prIn.packageTag))}

\* the modules the log of the run names
LoggedNames ==
    {push.module : push \in prLog.pushes} \cup {q[1] : q \in prLog.queried}
        \cup {d[1] : d \in prLog.branchDone} \cup prLog.failed \cup prLog.released
        \cup prLog.pushed

InvalidPackageTag ==
    \/ IsNil(PackageTag)
    \/ Len(ValueOf(PackageTag)) < 1
    \/ ValueOf(PackageTag)[1] # "v"
    \/ ~SemverValid(ValueOf(PackageTag))

\* C23: only the modules whose exact tag is the tag of the package are
\* pushed; a module with another tag or with no exact tag takes part in no
\* branch push and no tag push and does not fail the run; a package tag that
\* is missing, empty, not starting with 'v' or no valid version rejects the
\* run before any push
C23_MatchingModules ==
    /\ \A name \in LoggedNames \cup SelectedNames \cup DOMAIN prTasks :
            TagOf(name) = PackageTag
    /\ prStage # "start" /\ ~InvalidPackageTag /\ normalizeRemotes(prIn.remotes).ok
            => /\ SelectedNames = {name \in ModuleNames : TagOf(name) = PackageTag}
               /\ prStage = "branches" /\ prBranch = 1 /\ prLog = EmptyLog
                      => prOutcome = "pending"
               /\ prOutcome = "rejected"
                      => prLog.failed # {} \/ prLog.updated
    /\ prStage # "start" /\ InvalidPackageTag
            => prStage = "end" /\ prOutcome = "rejected" /\ prLog = EmptyLog

\* the package is pushed and released while module m, tagged v0.9.0, is left out
C23_Witness ==
    /\ prStage = "end"
    /\ prOutcome = "resolved"
    /\ TagOf("m") # PackageTag
    /\ TagOf("m") # Null
    /\ SelectedNames = {ExtensionName}
    /\ \E push \in TagPushes : push.module = ExtensionName
    /\ prLog.updated

\* the builds of the CI service the run has waited for to their final state
CiBuilds == IF prIn.dryRun THEN {} ELSE prLog.builds

\* C27: a build of the CI service whose final state is not 'passed' fails
\* the push of its branch or tag, and a release is created for a module only
\* after the build of its tag has finished with 'passed' and only when the
\* module is not of type package
C27_BuildPassed ==
    /\ \A build \in CiBuilds :
          build.state # "passed"
            => /\ build.module \in prLog.failed
               /\ prOutcome = "rejected"
               /\ build.module \notin prLog.pushed \cup prLog.released
               /\ build.kind = "branch"
                    => <<build.module, build.branch>> \notin prLog.branchDone
    /\ \A name \in prLog.released :
          /\ Selected(name).type # "package"
          /\ \E build \in prLog.builds :
                build.module = name /\ build.kind = "tag" /\ build.state = "passed"

\* module m is released after the build of its tag passed while the build of
\* the tag of the package ended 'errored'
C27_Witness ==
    /\ ~prIn.dryRun
    /\ prLog.released = {"m"}
    /\ \E build \in CiBuilds :
          build.module = ExtensionName /\ build.kind = "tag" /\ build.state = "errored"
    /\ prOutcome = "rejected"

\* the remote has the commit of the module on its branch already
AlreadyAt(name, remote) ==
    /\ ~IsNil(prIn.refs[<<name, remote>>])
    /\ Trim(ValueOf(prIn.refs[<<name, remote>>])) = Selected(name).commit

\* the pushes of the branch of a module that have been issued
PushedRemotes(name, b) ==
    {push.remote : push \in {q \in BranchPushes : q.module = name /\ q.branch = b}}

\* the remotes before position k
RemotesBefore(k) == {prRemotes[j] : j \in 1..(k - 1)}

\* C38: pushBranch pushes to no remote whose remote/branch is at the commit
\* of the module already; the remotes are handled one after another in their
\* order; the build of the branch is asked of the CI service only after the
\* pushes to all remotes are done and only if a push to origin was started,
\* so a branch that origin has at the commit already causes no CI poll
C38_PushBranch ==
    /\ \A push \in BranchPushes : ~AlreadyAt(push.module, push.remote)
    /\ prStage = "branches"
          => \A name \in DOMAIN prTasks :
                /\ prTasks[name].pc = "remote"
                      => PushedRemotes(name, prBranch)
                            = {r \in RemotesBefore(prTasks[name].k) : ~AlreadyAt(name, r)}
                               \ (IF prIn.dryRun THEN RemotesBefore(prTasks[name].k) ELSE {})
                /\ prTasks[name].pc = "await" /\ ~prIn.dryRun
                      => [module |-> name, remote |-> "origin", kind |-> "branch",
                          branch |-> prBranch, ok |-> TRUE] \in prLog.pushes
    /\ \A q \in prLog.queried :
          q[2] = "branch"
            => /\ ~AlreadyAt(q[1], "origin")
               /\ [module |-> q[1], remote |-> "origin", kind |-> "branch",
                   branch |-> q[3], ok |-> TRUE] \in prLog.pushes
               /\ \A k \in 1..Len(prRemotes) :
                     ~AlreadyAt(q[1], prRemotes[k])
                        => [module |-> q[1], remote |-> prRemotes[k], kind |-> "branch",
                            branch |-> q[3], ok |-> TRUE] \in prLog.pushes

\* origin has the commit of module m on the branch and bitbucket has not:
\* the branch is pushed to bitbucket alone and is done without a CI poll
C38_Witness ==
    /\ ~prIn.dryRun
    /\ "m" \in SelectedNames
    /\ prRemotes = Remotes
    /\ AlreadyAt("m", "origin")
    /\ PushedRemotes("m", 1) = {"bitbucket"}
    /\ <<"m", 1>> \in prLog.branchDone
    /\ \A q \in prLog.queried : q[1] # "m"

----------------------------------------------------------------------------
(* Claims about Module.resolve *)

StatusRefused == modOut.pc = "rejected" /\ modOut.error = "status"

\* C28: when Git.status fails for a module that is not a package, the
\* status becomes the default one, clean and unknown, and the resolution of
\* the module is not failed by it
C28_StatusDegrades ==
    modOut.source = "default"
        => /\ modOut.type # "package"
           /\ modOut.repository = DefaultStatus
           /\ ~StatusRefused

\* what the code keeps of the claim: the default status is taken
C28_DefaultTaken ==
    modOut.source = "default"
        => modOut.type # "package" /\ modOut.repository = DefaultStatus

\* C29: a module that resolve returns has a repository status with a commit
\* or with the dirty flag set; a status that has neither, whether it comes
\* from the extension, from the build manifest or from Git.status, fails the
\* resolution
C29_CommitOrDirty ==
    /\ modOut.pc \in {"metadata", "resolved"}
          => /\ modOut.source # "none"
             /\ ~IsNil(modOut.repository.commit) \/ modOut.repository.dirty = {TRUE}
    /\ (/\ modOut.source # "none"
        /\ modOut.pc # "check"
        /\ IsNil(modOut.repository.commit)
        /\ modOut.repository.dirty # {TRUE})
          => StatusRefused

\* a module whose repository has changed files and no commit is returned
C29_Witness ==
    /\ modOut.pc = "resolved"
    /\ modOut.source = "git"
    /\ IsNil(modOut.repository.commit)
    /\ modOut.repository.dirty = {TRUE}

\* the directory of the module as the candidates are described: the
\* directory of the type, the base directory of a package that holds
\* extension.json, the installed module
ExpectedModulePath ==
    LET type == ModuleType[modIn.type]
        declared == PathJoin(ModBase, ExtensionJson) \in modIn.disk
    IN  IF TypeDirectory(ModBase, modIn.name, type) \in modIn.disk
        THEN {TypeDirectory(ModBase, modIn.name, type)}
        ELSE IF type.name = "package" /\ declared
        THEN {ModBase}
        ELSE IF Installed(ModBase, modIn.name) \in modIn.disk
        THEN {Installed(ModBase, modIn.name)}
        ELSE Null

\* C30: the directory of a module is the first candidate that exists, in
\* the order: the directory of the type under basePath, basePath itself only
\* for a package whose basePath holds extension.json, the installed module
\* under basePath; with none the resolution fails as not found; a name that
\* gives an empty key fails the resolution
C30_ModulePath ==
    modOut.pc # "start" /\ modIn.type \in DOMAIN ModuleType
        => IF Len(moduleKey(modIn.name)) < 1
           THEN modOut.pc = "rejected" /\ modOut.error = "name"
           ELSE /\ modOut.key # <<>>
                /\ IF IsNil(ExpectedModulePath)
                   THEN modOut.pc = "thrown" /\ modOut.error = "notfound"
                   ELSE modOut.error # "notfound" /\ modOut.path = ValueOf(ExpectedModulePath)

----------------------------------------------------------------------------
(* Claims about the module graph *)

GraphNames == [k \in 1..Len(grOut.graph) |-> grOut.graph[k].name]

\* the names of the modules in the order the manifest declares them, the
\* build tool before them
DeclaredNames == [k \in 1..Len(GraphItems) |-> PackageNameOf(GraphItems[k].name)]

\* modules are resolved one after another in the order of the list, and
\* none is resolved after one that fails
ResolvedInOrder ==
    /\ Len(grOut.resolved) <= Len(DeclaredNames)
    /\ \A k \in 1..Len(grOut.resolved) : grOut.resolved[k].name = DeclaredNames[k]
    /\ grOut.pc = "failed"
        => /\ grIn.fails = Len(grOut.resolved) + 1
           /\ grOut.graph = <<>>
    /\ grOut.pc = "done" => Len(grOut.resolved) = Len(DeclaredNames)

\* C31 as stated: the graph has the build tool first, then framework, then
\* core, then the other modules in the order of the manifest, whatever
\* position the manifest declares framework and core in; modules are
\* resolved one after another and the first failure aborts the graph
C31_PriorityOrder ==
    grOut # <<>>
        => /\ grOut.pc = "done" => GraphNames = orderModules(DeclaredNames)
           /\ ResolvedInOrder

\* C31: the graph has the build tool first and then the modules in the
\* order the manifest declares them; modules are resolved one after another
\* and the first failing resolution aborts the graph
C31_DeclarationOrder ==
    grOut # <<>>
        => /\ grOut.pc = "done"
                => /\ GraphNames = DeclaredNames
                   /\ GraphNames[1] = BuildName
           /\ ResolvedInOrder

\* a graph of a manifest that declares core before framework
C31_Witness ==
    /\ grOut # <<>>
    /\ grOut.pc = "done"
    /\ GraphNames = <<BuildName, InternalScope \o <<"d">>, CoreName, FrameworkName>>

----------------------------------------------------------------------------
(* Claims about travis:install *)

\* the steps of the chain of one module
ChainSteps ==
    IF InstallBrowser THEN <<"clone", "install", "clean", "pack">>
    ELSE <<"clone", "install", "link">>

\* the steps of the chains of the modules, in the order they were taken
ChainLog ==
    SelectSeq(inst.log, LAMBDA e : e.step \in {"clone", "install", "clean", "pack", "link"})

\* C32: the chains of the modules are strictly sequential: the chain of a
\* module (clone, install of the dependencies, then link or pack) starts when
\* the chain of the module before it is complete, inside a chain the clone
\* completes before the install and the install before the link, and after
\* a failure in a chain no later chain starts
C32_ChainsSequential ==
    inst # <<>>
        => \A i \in 1..Len(ChainLog) :
            /\ ChainLog[i].k = ((i - 1) \div Len(ChainSteps)) + 1
            /\ ChainLog[i].k <= Len(InstallModules)
            /\ ChainLog[i].step = ChainSteps[((i - 1) % Len(ChainSteps)) + 1]
            /\ i < Len(ChainLog) => ChainLog[i].ok
            /\ ~ChainLog[i].ok => inst.pc = "failed"

\* the modules of a package are linked one after another, both links made
C32_Witness ==
    /\ inst # <<>>
    /\ ~InstallBrowser
    /\ Len(ChainLog) = 6
    /\ ChainLog[6] = Event("link", 2, TRUE)

\* the steps of the install of a browser, in order
BrowserPlan ==
    LET n == Len(InstallModules)
    IN  (IF ~instIn.reuse /\ instIn.cache THEN <<Event("removeCache", 0, TRUE)>> ELSE <<>>)
        \o <<Event("readPackage", 0, TRUE)>>
        \o [i \in 1..(4 * n) |->
                Event(<<"clone", "install", "clean", "pack">>[((i - 1) % 4) + 1],
                      ((i - 1) \div 4) + 1, TRUE)]
        \o <<Event("writePackage", 0, TRUE), Event("writeLocks", 0, TRUE)>>
        \o [k \in 1..n |-> Event("linkDependencies", k, TRUE)]
        \o <<Event("package", 0, TRUE), Event("cleanLocks", 0, TRUE)>>

\* C39: the install of a browser takes its steps in this order and stops at
\* the first that fails: the modules are packed one after another, the
\* manifest is written, then the lockfile, the peer dependencies of the
\* modules are linked, the package is installed and the lockfile is cleaned;
\* a modules directory that exists is removed before all of them unless it
\* is reused
C39_BrowserOrder ==
    (inst # <<>> /\ inst.pc # "start" /\ InstallBrowser)
        => /\ Len(inst.log) <= Len(BrowserPlan)
           /\ \A i \in 1..Len(inst.log) :
                /\ inst.log[i].step = BrowserPlan[i].step
                /\ inst.log[i].k = BrowserPlan[i].k
                /\ i < Len(inst.log) => inst.log[i].ok
                /\ ~inst.log[i].ok => inst.pc = "failed"
           /\ inst.pc = "done" => Len(inst.log) = Len(BrowserPlan)
           /\ (instIn.reuse /\ instIn.cache) => repositoryOf(FrameworkName) \in inst.disk

\* a browser with two modules is installed after its modules directory was
\* removed
C39_Witness ==
    /\ inst # <<>>
    /\ InstallBrowser
    /\ inst.pc = "done"
    /\ Len(InstallModules) = 2
    /\ inst.log[1].step = "removeCache"

\* the links link() has made
CreatedLinks == {inst.created[k] : k \in 1..Len(inst.created)}

InstallRegistry == links[LinkKey(Chrome, Production)]

\* C33 as stated: a link that link() has made is in the registry, and
\* resolveLink translates the paths under it
C33_Recorded ==
    (inst # <<>> /\ inst.pc = "done" /\ inst.registered = Len(inst.created))
        => /\ \A link \in CreatedLinks :
                \E k \in 1..Len(InstallRegistry) :
                    /\ InstallRegistry[k].target = link.target
                    /\ InstallRegistry[k].source = link.source
           /\ linkOp.kind = "resolve"
                => \E link \in CreatedLinks :
                    linkOp.result = {PathJoin(link.source, LibY)}

\* C33: a link that link() has made is on disk and is not in the registry:
\* registerLinks finds it when the extension is built and registerLink
\* passes it over, its package being in the scope of the modules, and
\* resolveLink gives the paths under it back as they are
C33_NotRecorded ==
    inst # <<>>
        => /\ \A link \in CreatedLinks :
                \A k \in 1..Len(InstallRegistry) :
                    /\ InstallRegistry[k].target # link.target
                    /\ InstallRegistry[k].source # link.source
           /\ linkOp.kind = "register" => linkOp.out = "ignored"
           /\ linkOp.kind = "resolve" => linkOp.result = linkOp.path
           /\ \A k \in 1..Len(inst.log) :
                (inst.log[k].step = "link" /\ inst.log[k].ok)
                    => \E link \in CreatedLinks :
                        link.source = linkPath(WorkPath, InstallModules[inst.log[k].k])

\* the two links of a package were found by registerLinks, and a path under
\* one of them is resolved
C33_Witness ==
    /\ inst # <<>>
    /\ Len(inst.created) = 2
    /\ inst.registered = 2
    /\ linkOp.kind = "resolve"
    /\ linkOp.path = {PathJoin(localPath(WorkPath, FrameworkName), LibY)}

----------------------------------------------------------------------------
(* Claims about the registration of the links *)

\* the registry after the entries of a directory are registered in order
RECURSIVE RegisterEntries(_, _)
RegisterEntries(registry, entries) ==
    IF entries = <<>> THEN registry
    ELSE RegisterEntries(IF Head(entries).symlink
                         THEN registerLink(registry, Chrome, Head(entries).source,
                                           Head(entries).target).registry
                         ELSE registry,
                         Tail(entries))

\* the registry when the modules are gone through one after another
SequentialRegistry ==
    RegisterEntries(RegisterEntries(RegisterEntries(<<>>, fanIn.p), fanIn.m), fanIn.n)

\* the links of a registry, whatever the order they were registered in
LinksOf(registry) == {registry[k] : k \in 1..Len(registry)}

\* C37: the registration of the links of all modules at once does not depend
\* on its order: for the same symbolic links the registry is the same after
\* every interleaving of the registrations of the modules, and the compiler
\* starts after all of them are done
C37_OrderIndependent ==
    fanPhase = "compile"
        => /\ \A module \in FanModules : fanPending[module] = <<>>
           /\ LinksOf(links[FanKey]) = LinksOf(SequentialRegistry)

\* what holds: the compiler starts after all registrations, and the
\* registry holds the same targets after every interleaving
C37_SameTargets ==
    fanPhase = "compile"
        => /\ \A module \in FanModules : fanPending[module] = <<>>
           /\ {link.target : link \in LinksOf(links[FanKey])}
                = {link.target : link \in LinksOf(SequentialRegistry)}

----------------------------------------------------------------------------
(* Claims about resolveReasons *)

\* the reasons lead from t back to a module whose call is under way
ReasonCycle ==
    \E k \in 1..Len(rsStack) :
        /\ AtReason
        /\ TopReason \in ReasonNodes
        /\ rsStack[k].module = TopReason

\* C34: the resolution of the reasons ends on every graph of reasons, one
\* whose chain of reasons comes back to a module outside the tracked modules
\* included: the calls never exhaust the stack and validate returns
C34_Terminates ==
    rsOut # <<>> => rsOut.pc # "overflow"

\* what holds: without such a cycle the calls are never deeper than the
\* modules outside the tracked ones
C34_AcyclicDepth ==
    rsOut # <<>> /\ rsOut.pc = "overflow"
        => \E k \in 1..Len(rsStack) : rsStack[k].module = TopReason

----------------------------------------------------------------------------
(* Claims about the polling loops *)

\* the answer has no status the options accept
NoMatch(options, answer) ==
    /\ ~answer.err
    /\ \/ ~IsNil(options.sha) /\ answer.sha # ValueOf(options.sha)
       \/ IsNil(answer.travis)
       \/ /\ ~IsNil(answer.travis)
          /\ ~IsNil(options.createdAfter)
          /\ ValueOf(answer.travis).created < ValueOf(options.createdAfter)

\* C24: getTravisStatus resolves only with the travis status of an answer
\* whose sha is the expected one, when one is given, and that was created
\* no earlier than the push started, when a start is given; an answer for
\* another commit or created earlier only schedules another run.
C24_MatchingStatus ==
    /\ [](statusPoll.pc = "resolved" =>
            LET answer == ValueOf(statusPoll.answer)
                options == pollOpts.status
            IN  /\ ~answer.err
                /\ statusPoll.value = answer.travis
                /\ ~IsNil(answer.travis)
                /\ ~IsNil(options.sha) => answer.sha = ValueOf(options.sha)
                /\ ~IsNil(options.createdAfter) =>
                      ValueOf(answer.travis).created >= ValueOf(options.createdAfter))
    /\ [][(statusPoll.pc = "query" /\ statusPoll'.pc # "query"
            /\ NoMatch(pollOpts.status, ValueOf(statusPoll'.answer)))
                => statusPoll'.pc = "timer"]_vars

\* resolved at the second attempt, with a sha and a start time expected
C24_Witness ==
    /\ statusPoll.pc = "resolved"
    /\ statusPoll.attempts = 2
    /\ pollOpts.status.sha = {<<"c1">>}
    /\ pollOpts.status.createdAfter = {1}
    /\ ValueOf(statusPoll.value).created >= 1

\* C25: getTravisStatus sends at most retryAttempts status queries and
\* awaitTravisBuild at most maximumAttempts build queries; the first query is
\* attempt 1; the budget rejects only at the run after the Nth query; and
\* each loop eventually resolves or rejects.
C25_Bounded ==
    /\ [](/\ statusPoll.queries <= pollOpts.status.retryAttempts
          /\ buildPoll.queries <= pollOpts.build.maximumAttempts
          /\ statusPoll.pc = "query" =>
                (statusPoll.attempts = statusPoll.queries /\ statusPoll.attempts >= 1)
          /\ buildPoll.pc = "query" =>
                (buildPoll.attempts = buildPoll.queries /\ buildPoll.attempts >= 1)
          /\ statusPoll.error = "unavailable" =>
                /\ statusPoll.pc = "rejected"
                /\ statusPoll.queries = pollOpts.status.retryAttempts
                /\ statusPoll.attempts = pollOpts.status.retryAttempts + 1
          /\ buildPoll.error = "timeout" =>
                /\ buildPoll.pc = "rejected"
                /\ buildPoll.queries = pollOpts.build.maximumAttempts
                /\ buildPoll.attempts = pollOpts.build.maximumAttempts + 1)
    /\ <>Settled(statusPoll)
    /\ <>Settled(buildPoll)

\* both budgets of two attempts were used up
C25_Witness ==
    /\ statusPoll.error = "unavailable"
    /\ statusPoll.queries = 2
    /\ buildPoll.error = "timeout"
    /\ buildPoll.queries = 2

\* C26 as stated: with the budget not exhausted, an answer without a matching
\* status and a status query that fails both lead to another attempt.
C26_AsStated ==
    [][(/\ statusPoll.pc = "query" /\ statusPoll'.pc # "query"
        /\ \/ ValueOf(statusPoll'.answer).err
           \/ NoMatch(pollOpts.status, ValueOf(statusPoll'.answer)))
            => statusPoll'.pc = "timer"]_vars

\* C26 amended: with the budget not exhausted, an answer without a matching
\* status leads to another attempt and does not reject; a status query that
\* fails rejects getTravisStatus at once with the error of the query.
C26_Retried ==
    [][(statusPoll.pc = "query" /\ statusPoll'.pc # "query")
        => /\ NoMatch(pollOpts.status, ValueOf(statusPoll'.answer))
                => (statusPoll'.pc = "timer" /\ statusPoll'.error = "none")
           /\ ValueOf(statusPoll'.answer).err
                => (statusPoll'.pc = "rejected" /\ statusPoll'.error = "query")]_vars

\* the first answer had no travis status and a second attempt is scheduled
C26_Witness ==
    /\ statusPoll.pc = "timer"
    /\ statusPoll.attempts = 1
    /\ pollOpts.status.retryAttempts = 2
    /\ ~IsNil(statusPoll.answer)
    /\ IsNil(ValueOf(statusPoll.answer).travis)
    /\ ~ValueOf(statusPoll.answer).err

----------------------------------------------------------------------------
(* Specifications: one per component, the other components idle *)

InitRef == RefInit /\ PkgIdle /\ LockIdle /\ CloneIdle /\ LinkIdle /\ ValidatorIdle /\ ReleaseIdle

SpecRef == InitRef /\ [][RefNext]_vars

InitPackage == RefIdle /\ PkgInit /\ LockIdle /\ CloneIdle /\ LinkIdle /\ ValidatorIdle /\ ReleaseIdle

SpecPackage == InitPackage /\ [][PkgNext]_vars

InitLocks == RefIdle /\ PkgIdle /\ LockInit /\ CloneIdle /\ LinkIdle /\ ValidatorIdle /\ ReleaseIdle

SpecLocks == InitLocks /\ [][LockNext]_vars

InitClone == RefIdle /\ PkgIdle /\ LockIdle /\ CloneInit /\ LinkIdle /\ ValidatorIdle /\ ReleaseIdle

SpecClone == InitClone /\ [][CloneNext]_vars

InitLinks ==
    /\ RefIdle /\ PkgIdle /\ LockIdle /\ CloneIdle /\ LinkInit /\ ValidatorIdle
    /\ ReleaseIdle

SpecLinks == InitLinks /\ [][LinkNext]_vars

SpecRuns == InitLinks /\ [][RunsNext]_vars

InitValidator ==
    /\ RefIdle /\ PkgIdle /\ LockIdle /\ CloneIdle /\ LinkInit /\ ValidatorInit
    /\ ReleaseIdle

SpecValidator == InitValidator /\ [][ValidatorNext]_vars

InitReason ==
    /\ RefIdle /\ PkgIdle /\ LockIdle /\ CloneIdle /\ LinkInit /\ ReasonInit
    /\ ReleaseIdle

SpecReason == InitReason /\ [][ReasonNext]_vars

BaseIdle ==
    RefIdle /\ PkgIdle /\ LockIdle /\ CloneIdle /\ LinkIdle /\ ValidatorIdle

InitPoll == BaseIdle /\ PollInit /\ PushIdle /\ ModIdle /\ OrchIdle

SpecPoll == InitPoll /\ [][PollNext]_vars

\* the timers fire and the services answer
SpecPollFair ==
    /\ SpecPoll
    /\ WF_vars(StatusRun) /\ WF_vars(StatusCallback)
    /\ WF_vars(BuildRun) /\ WF_vars(BuildCallback)

InitPush == BaseIdle /\ PollIdle /\ PushInit /\ ModIdle /\ OrchIdle

SpecPush == InitPush /\ [][PushNext]_vars

InitModule == BaseIdle /\ PollIdle /\ PushIdle /\ ModInit /\ OrchIdle

SpecModule == InitModule /\ [][ModNext]_vars

InitReasons == BaseIdle /\ PollIdle /\ PushIdle /\ ModIdle /\ ReasonsInit
                 /\ GraphIdle /\ InstallIdle /\ FanIdle

SpecReasons == InitReasons /\ [][ReasonsNext]_vars

InitFan ==
    /\ RefIdle /\ PkgIdle /\ LockIdle /\ CloneIdle /\ ValidatorIdle /\ FanInit
    /\ PollIdle /\ PushIdle /\ ModIdle /\ GraphIdle /\ InstallIdle /\ ReasonsIdle

SpecFan == InitFan /\ [][FanNext]_vars

InitGraph ==
    /\ BaseIdle /\ PollIdle /\ PushIdle /\ ModIdle /\ GraphInit
    /\ InstallIdle /\ FanIdle /\ ReasonsIdle

SpecGraph == InitGraph /\ [][GraphNext]_vars

InitInstall ==
    /\ RefIdle /\ PkgIdle /\ LockIdle /\ CloneIdle /\ ValidatorIdle /\ InstallInit
    /\ PollIdle /\ PushIdle /\ ModIdle /\ GraphIdle /\ FanIdle /\ ReasonsIdle

SpecInstall == InitInstall /\ [][InstallNext]_vars

====
